---- MODULE Spec2Model ----
(***************************************************************************)
(* A model of the easylang interpreter (github.com/hikitani/easylang):     *)
(* the value model (package variant), the lowered evaluator of binary      *)
(* operator chains, function and block-expression frames, the loop         *)
(* invokers, Object construction and iteration, and the importer.          *)
(*                                                                         *)
(* Modelling conventions                                                   *)
(*  - a Num is a rational n/d (d > 0, lowest terms), a zero of either sign *)
(*    or a signed infinity; the rounding of big.Float at its precision is  *)
(*    not represented;                                                     *)
(*  - a string is the sequence of its bytes;                               *)
(*  - an (value, error) result of the Go code is a record [val, err] with  *)
(*    err = "" for a nil error.                                            *)
(***************************************************************************)
EXTENDS Integers, Sequences, FiniteSets, TLC

(***************************************************************************)
(* Bounds of the model.                                                    *)
(***************************************************************************)
MaxOps == 3

(***************************************************************************)
(* package variant: the tagged values.                                     *)
(***************************************************************************)
TypeNone == 0
TypeBool == 1
TypeNum == 2
TypeString == 3
TypeArray == 4
TypeObject == 5
TypeFunc == 6

typNames == <<"null", "bool", "number", "string", "array", "object", "func">>

ZeroValue ==
  [t |-> "null", inf |-> 0, n |-> 0, d |-> 1, negz |-> FALSE, b |-> FALSE,
   s |-> <<>>, bmode |-> FALSE, v |-> <<>>]

NewNone == ZeroValue

NewBool(b) == [ZeroValue EXCEPT !.t = "bool", !.b = b]

NewString(s) == [ZeroValue EXCEPT !.t = "string", !.s = s]

NewArray(v) == [ZeroValue EXCEPT !.t = "array", !.v = v]

Bytes(bs) == [ZeroValue EXCEPT !.t = "array", !.bmode = TRUE, !.s = bs]

NewFunc == [ZeroValue EXCEPT !.t = "func"]

Abs(x) == IF x < 0 THEN -x ELSE x

Sgn(x) == IF x < 0 THEN -1 ELSE IF x > 0 THEN 1 ELSE 0

RECURSIVE GCD(_, _)
GCD(a, b) == IF b = 0 THEN a ELSE GCD(b, a % b)

\* a finite Num n/d in lowest terms, d > 0
Rat(n, d) ==
  LET g == GCD(Abs(n), Abs(d))
      s == IF d < 0 THEN -1 ELSE 1
  IN  [ZeroValue EXCEPT !.t = "number", !.n = (s * n) \div g, !.d = (s * d) \div g]

VInt(i) == Rat(i, 1)

UInt(i) == Rat(i, 1)

\* sign = 1 for +inf, -1 for -inf
InfNum(sign) == [ZeroValue EXCEPT !.t = "number", !.inf = sign]

Inf == InfNum(1)

\* the zero with the sign bit set
NegZero == [ZeroValue EXCEPT !.t = "number", !.negz = TRUE]

SignedZero(neg) == IF neg THEN NegZero ELSE VInt(0)

\* big.Float.Signbit
Signbit(x) == x.inf < 0 \/ x.n < 0 \/ x.negz

NegInf == InfNum(-1)

IsInf(x) == x.inf # 0

IsZero(x) == x.inf = 0 /\ x.n = 0

Sign(x) == IF x.inf # 0 THEN x.inf ELSE Sgn(x.n)

IsInt(x) == x.inf = 0 /\ x.d = 1

\* big.Float.Cmp: -1, 0 or 1
Cmp(x, y) ==
  IF x.inf # 0 \/ y.inf # 0
  THEN Sgn(x.inf - y.inf)
  ELSE Sgn(x.n * y.d - y.n * x.d)

LessThan(x, y) == Cmp(x, y) = -1

LessOrEqualTo(x, y) == Cmp(x, y) <= 0

GreaterThan(x, y) == Cmp(x, y) = 1

GreaterOrEqualTo(x, y) == Cmp(x, y) >= 0

Neg(x) ==
  IF x.inf # 0 THEN InfNum(-x.inf)
  ELSE IF x.n = 0 THEN SignedZero(~x.negz)
  ELSE Rat(-x.n, x.d)

\* big.Float.Add, Sub, Mul, Quo on operands the callers have already vetted
FloatAdd(x, y) ==
  IF x.inf # 0 THEN x
  ELSE IF y.inf # 0 THEN y
  ELSE IF x.n * y.d + y.n * x.d = 0 THEN SignedZero(Signbit(x) /\ Signbit(y))
  ELSE Rat(x.n * y.d + y.n * x.d, x.d * y.d)

FloatSub(x, y) == FloatAdd(x, Neg(y))

FloatMul(x, y) ==
  IF x.inf # 0 \/ y.inf # 0
  THEN InfNum(Sign(x) * Sign(y))
  ELSE IF x.n * y.n = 0 THEN SignedZero(Signbit(x) # Signbit(y))
  ELSE Rat(x.n * y.n, x.d * y.d)

FloatQuo(x, y) ==
  IF x.inf # 0 THEN InfNum(x.inf * (IF Signbit(y) THEN -1 ELSE 1))
  ELSE IF y.inf # 0 \/ x.n = 0 THEN SignedZero(Signbit(x) # Signbit(y))
  ELSE IF y.n = 0 THEN InfNum(IF Signbit(x) # Signbit(y) THEN -1 ELSE 1)
  ELSE Rat(x.n * y.d, x.d * y.n)

\* big.Float.Int: truncation towards zero
Trunc(x) == VInt(Sgn(x.n) * (Abs(x.n) \div x.d))

\* big.Int.Mod: the Euclidean modulus, 0 <= r < |y|
BigIntMod(x, y) == x % Abs(y)

RECURSIVE DeepEqual(_, _)
DeepEqual(x, y) ==
  IF x.t # y.t THEN FALSE
  ELSE CASE x.t = "null" -> TRUE
         [] x.t = "bool" -> x.b = y.b
         [] x.t = "number" -> Cmp(x, y) = 0
         [] x.t = "string" -> x.s = y.s
         [] x.t = "array" ->
              /\ Len(x.v) = Len(y.v)
              /\ \A i \in 1..Len(x.v) : DeepEqual(x.v[i], y.v[i])
         [] OTHER -> FALSE

RECURSIVE LiftBytes(_)
LiftBytes(bs) ==
  IF bs = <<>> THEN <<>> ELSE <<UInt(Head(bs))>> \o LiftBytes(Tail(bs))

Concat(v, other) ==
  IF v.bmode /\ other.bmode
  THEN Bytes(v.s \o other.s)
  ELSE LET larr == IF v.bmode THEN LiftBytes(v.s) ELSE v.v
           rarr == IF other.bmode THEN LiftBytes(other.s) ELSE other.v
       IN  NewArray(larr \o rarr)

(***************************************************************************)
(* package lexer: operator classes and priorities.                         *)
(***************************************************************************)
operatorPriorities ==
  [op \in {"*", "/", "%", "+", "-", "==", "!=", "<", "<=", ">", ">=", "and", "or"} |->
     CASE op \in {"*", "/", "%"} -> 5
       [] op \in {"+", "-"} -> 4
       [] op \in {"==", "!=", "<", "<=", ">", ">="} -> 3
       [] op = "and" -> 2
       [] op = "or" -> 1]

MustOperatorPriority(op) == operatorPriorities[op]

IsArithOp(op) == op \in {"+", "-", "*", "/", "%"}

IsCmpOp(op) == op \in {"==", "!=", "<", "<=", ">", ">="}

IsPredicateOp(op) == op \in {"and", "or"}

(***************************************************************************)
(* evalBinary                                                              *)
(***************************************************************************)
Ok(v) == [val |-> v, err |-> ""]

Fail(msg) == [val |-> NewNone, err |-> msg]

\* the remainder of the truncated division on both paths, with no adjustment
ModulusTruncated(lnum, rnum) ==
  FloatSub(lnum, FloatMul(Trunc(FloatQuo(lnum, rnum)), rnum))

Modulus(lnum, rnum) ==
  IF IsInt(lnum) /\ IsInt(rnum)
  THEN VInt(BigIntMod(lnum.n, rnum.n))
  ELSE LET div == FloatQuo(lnum, rnum) IN
       IF IsInf(div) THEN div
       ELSE LET divInt == Trunc(div)
                mul == FloatMul(divInt, rnum)
                num == FloatSub(lnum, mul)
            IN  IF Sign(lnum) < 0
                THEN IF Sign(rnum) > 0
                     THEN FloatAdd(rnum, num)
                     ELSE FloatAdd(Neg(rnum), num)
                ELSE num

evalArith(op, lnum, rnum) ==
  CASE op = "+" ->
         IF IsInf(lnum) /\ IsInf(rnum) /\ Sign(lnum) # Sign(rnum)
         THEN Fail("op '+': addition of inf and inf with opposite signs")
         ELSE Ok(FloatAdd(lnum, rnum))
    [] op = "-" ->
         IF IsInf(lnum) /\ IsInf(rnum) /\ Sign(lnum) = Sign(rnum)
         THEN Fail("op '-': subtraction of inf from inf with equal signs")
         ELSE Ok(FloatSub(lnum, rnum))
    [] op = "/" ->
         IF IsZero(lnum) /\ IsZero(rnum)
         THEN Fail("op '/': division of zero into zero")
         ELSE IF IsInf(lnum) /\ IsInf(rnum)
         THEN Fail("op '/': division of inf into inf")
         ELSE Ok(FloatQuo(lnum, rnum))
    [] op = "*" ->
         IF (IsZero(lnum) /\ IsInf(rnum)) \/ (IsInf(lnum) /\ IsZero(rnum))
         THEN Fail("op '*': one operand is zero and the other operand an infinity")
         ELSE Ok(FloatMul(lnum, rnum))
    [] op = "%" ->
         IF IsInf(rnum) THEN Fail("op '%': modulus with inf")
         ELSE IF IsZero(rnum) THEN Fail("op '%': modulus with zero")
         ELSE Ok(Modulus(lnum, rnum))

evalBinary(op, lval, rval) ==
  IF op = "+" /\ rval.t = "string" /\ lval.t = "string"
  THEN Ok(NewString(lval.s \o rval.s))
  ELSE IF op = "+" /\ rval.t = "array" /\ lval.t = "array"
  THEN Ok(Concat(lval, rval))
  ELSE IF IsCmpOp(op)
  THEN IF rval.t # lval.t THEN Fail("unsupported operand type")
       ELSE IF op = "==" THEN Ok(NewBool(DeepEqual(lval, rval)))
       ELSE IF op = "!=" THEN Ok(NewBool(~DeepEqual(lval, rval)))
       ELSE IF rval.t # "number" THEN Fail("unsupported operand type")
       ELSE CASE op = "<" -> Ok(NewBool(LessThan(lval, rval)))
              [] op = "<=" -> Ok(NewBool(LessOrEqualTo(lval, rval)))
              [] op = ">" -> Ok(NewBool(GreaterThan(lval, rval)))
              [] op = ">=" -> Ok(NewBool(GreaterOrEqualTo(lval, rval)))
  ELSE IF IsArithOp(op)
  THEN IF rval.t # "number" \/ lval.t # "number"
       THEN Fail("unsupported operand type")
       ELSE evalArith(op, lval, rval)
  ELSE IF IsPredicateOp(op)
  THEN IF rval.t # "bool" \/ lval.t # "bool"
       THEN Fail("unsupported operand type")
       ELSE IF op = "and" THEN Ok(NewBool(lval.b /\ rval.b))
       ELSE Ok(NewBool(lval.b \/ rval.b))
  ELSE Fail("unknown operation")

(***************************************************************************)
(* State.                                                                  *)
(***************************************************************************)
VARIABLES
  \* ExprCodeGen.CodeGen: one lowered binary chain and its evaluator
  chain,      \* the operators of the chain in source order
  evals,      \* the operand evaluators (here: the values they yield)
  ops,        \* the opinfo list after sort.Slice
  evalMask,   \* which operands have been consumed
  stack,      \* intermediate results
  opIdx,      \* position of the loop over ops (1-based)
  exprPc,     \* "lowered", "eval", "done", "error", "panic"
  exprRes,    \* the value returned by the evaluator
  evalOrder   \* source positions (0-based) of the operands, in evaluation order

VARIABLES
  \* function and block-expression frames over the scopes built at lowering
  scopes,     \* scope id -> VarScope [r: varmapper, m: register -> value]
  frames,     \* the calls of f / evaluations of the block in progress
  calls,      \* number of top-level calls and evaluations started
  lastRet,    \* outcome of the call or evaluation that finished last
  resumed,    \* TRUE right after an inner call returned into the top frame
  outerSeen   \* [atCreate: the value of y when f was created,
              \*  read: TRUE right after a call left through `return y`]

callVars == <<scopes, frames, calls, lastRet, resumed, outerSeen>>

VARIABLES
  \* an Object, and a loop statement running over a collection
  obj,        \* the Object: [v: bytes -> value, keys: bytes -> original key]
  history,    \* the <<key, value>> pairs given to NewObject and Set, in order
  sets,       \* number of Set calls made
  loopKind,   \* "none", "while", "array", "object"
  coll,       \* the Array a `for` over an Array iterates
  loopPc,     \* "idle", "iter", "done"
  loopIdx,    \* number of body invocations of the running loop
  visited,    \* [kb, key] of the entries handed to the body, in order
  loopRet,    \* what the loop invoker returned ("" is nil)
  bodyErr,    \* the first body outcome that is neither nil, break nor continue
  lateIter,   \* TRUE when the body was invoked again after bodyErr
  run,        \* 1 for the first run of the loop, 2 for the second
  firstTrace, \* the keys the first run handed to the body
  plain       \* TRUE while every body invocation returned nil

objVars == <<obj, history, sets, loopKind, coll, loopPc, loopIdx, visited, loopRet,
             bodyErr, lateIter, run, firstTrace, plain>>

VARIABLES
  \* ImportExprCodeGen.CodeGen: lowering of a file and of the files it imports
  files,         \* file -> the paths of its import expressions, in source order
  present,       \* the files the source provider can open
  importedPaths, \* importsInfo.ImportedPaths
  lowerStack,    \* the files being lowered: [file, next import expression]
  importPc,      \* "lowering", "ok", "error"
  importErr,     \* the error lowering failed with
  failPath,      \* the path whose import failed
  failChain      \* the files that were being lowered when it failed

importVars == <<files, present, importedPaths, lowerStack, importPc, importErr,
                failPath, failChain>>

exprVars == <<chain, evals, ops, evalMask, stack, opIdx, exprPc, exprRes, evalOrder>>

(***************************************************************************)
(* ExprCodeGen.CodeGen: lowering of a binary chain.                        *)
(***************************************************************************)
OpSet == {"*", "-", "+", "<", "and"}

OperandSet == {VInt(2), VInt(3), NewBool(TRUE)}

opinfo(op, i) == [op |-> op, prior |-> MustOperatorPriority(op), origPos |-> i]

\* the less function handed to sort.Slice
less(a, b) == a.prior > b.prior

RECURSIVE insertSorted(_, _)
insertSorted(sorted, x) ==
  IF sorted = <<>> \/ ~less(x, sorted[Len(sorted)])
  THEN Append(sorted, x)
  ELSE Append(insertSorted(SubSeq(sorted, 1, Len(sorted) - 1), x), sorted[Len(sorted)])

RECURSIVE insertionSort(_)
insertionSort(xs) ==
  IF xs = <<>> THEN <<>>
  ELSE insertSorted(insertionSort(SubSeq(xs, 1, Len(xs) - 1)), xs[Len(xs)])

\* sort.Slice sorts a slice of at most 12 elements by insertion sort
sortSlice(xs) == insertionSort(xs)

lowerChain(c) == sortSlice([i \in 1..Len(c) |-> opinfo(c[i], i - 1)])

ExprInit ==
  \E n \in 1..MaxOps :
    \E c \in [1..n -> OpSet], e \in [1..(n + 1) -> OperandSet] :
      /\ chain = c
      /\ evals = e
      /\ ops = lowerChain(c)
      /\ evalMask = [i \in 1..(n + 1) |-> FALSE]
      /\ stack = <<>>
      /\ opIdx = 1
      /\ exprPc = "lowered"
      /\ exprRes = NewNone
      /\ evalOrder = <<>>

\* the evaluator is entered: clear(evalMask); stack = stack[:0]
ExprEvalStart ==
  /\ exprPc = "lowered"
  /\ evalMask' = [i \in DOMAIN evalMask |-> FALSE]
  /\ stack' = <<>>
  /\ opIdx' = 1
  /\ exprPc' = "eval"
  /\ UNCHANGED <<chain, evals, ops, exprRes, evalOrder>>

\* one iteration of the loop over the sorted operators
ExprEvalStep ==
  /\ exprPc = "eval"
  /\ opIdx <= Len(ops)
  /\ LET info == ops[opIdx]
         i == info.origPos
         leval == ~evalMask[i + 1]          \* leval # nil
         reval == ~evalMask[i + 2]          \* reval # nil
         rpanic == ~reval /\ stack = <<>>
         rval == IF reval THEN evals[i + 2] ELSE stack[Len(stack)]
         stack1 == IF reval THEN stack ELSE SubSeq(stack, 1, Len(stack) - 1)
         order1 == IF reval THEN Append(evalOrder, i + 1) ELSE evalOrder
         lpanic == ~leval /\ stack1 = <<>>
         lval == IF leval THEN evals[i + 1] ELSE stack1[Len(stack1)]
         stack2 == IF leval THEN stack1 ELSE SubSeq(stack1, 1, Len(stack1) - 1)
         order2 == IF leval THEN Append(order1, i) ELSE order1
     IN  /\ evalMask' = [evalMask EXCEPT ![i + 1] = TRUE, ![i + 2] = TRUE]
         /\ IF rpanic
            THEN /\ exprPc' = "panic"
                 /\ UNCHANGED <<stack, opIdx, evalOrder>>
            ELSE IF lpanic
            THEN /\ exprPc' = "panic"
                 /\ stack' = stack1
                 /\ evalOrder' = order1
                 /\ UNCHANGED opIdx
            ELSE LET res == evalBinary(info.op, lval, rval) IN
                 /\ evalOrder' = order2
                 /\ IF res.err # ""
                    THEN /\ exprPc' = "error"
                         /\ stack' = stack2
                         /\ UNCHANGED opIdx
                    ELSE /\ stack' = Append(stack2, res.val)
                         /\ opIdx' = opIdx + 1
                         /\ UNCHANGED exprPc
  /\ UNCHANGED <<chain, evals, ops, exprRes>>

\* return stack[0], nil
ExprEvalReturn ==
  /\ exprPc = "eval"
  /\ opIdx > Len(ops)
  /\ IF stack = <<>>
     THEN exprPc' = "panic" /\ UNCHANGED exprRes
     ELSE exprPc' = "done" /\ exprRes' = stack[1]
  /\ UNCHANGED <<chain, evals, ops, evalMask, stack, opIdx, evalOrder>>

(***************************************************************************)
(* The value of a chain grouped by the precedence table, left-associative  *)
(* within one level: split at the rightmost operator of lowest priority.   *)
(***************************************************************************)
splitAt(c) ==
  CHOOSE k \in 1..Len(c) :
    /\ \A j \in 1..Len(c) : MustOperatorPriority(c[k]) <= MustOperatorPriority(c[j])
    /\ \A j \in (k + 1)..Len(c) : MustOperatorPriority(c[k]) < MustOperatorPriority(c[j])

RECURSIVE treeValue(_, _)
treeValue(c, e) ==
  IF c = <<>> THEN Ok(e[1])
  ELSE LET k == splitAt(c)
           l == treeValue(SubSeq(c, 1, k - 1), SubSeq(e, 1, k))
           r == treeValue(SubSeq(c, k + 1, Len(c)), SubSeq(e, k + 1, Len(e)))
       IN  IF l.err # "" THEN l
           ELSE IF r.err # "" THEN r
           ELSE evalBinary(c[k], l.val, r.val)

(***************************************************************************)
(* vars.go: VarScope, varmapper and Vars.                                  *)
(***************************************************************************)
MaxDepth == 2
MaxCalls == 2

RegisterReturn == 0

ScopeIds == {"G", "F", "B"}

NewVarScope == [r |-> [m |-> <<>>, i |-> 1], m |-> <<>>]

NewVars == [Global |-> "G", Locals |-> <<>>, ParentBlockScope |-> "nil"]

LastScope(vars) == vars.Locals[Len(vars.Locals)]

\* Vars.WithScope; id names the VarScope that NewVarScope() allocates
WithScope(vars, id) ==
  [Global |-> vars.Global, Locals |-> Append(vars.Locals, id),
   ParentBlockScope |-> vars.ParentBlockScope]

\* varmapper.Register
varmapperRegister(vm, name) ==
  IF name \in DOMAIN vm.m
  THEN [vm |-> vm, reg |-> vm.m[name]]
  ELSE [vm |-> [m |-> (name :> vm.i) @@ vm.m, i |-> vm.i + 1], reg |-> vm.i]

scopeRegister(sc, id, name) ==
  LET r == varmapperRegister(sc[id].r, name)
  IN  [sc |-> [sc EXCEPT ![id].r = r.vm], scope |-> id, reg |-> r.reg]

\* Vars.Register
Register(sc, vars, name) ==
  IF vars.Locals = <<>>
  THEN scopeRegister(sc, vars.Global, name)
  ELSE IF \E i \in 1..Len(vars.Locals) : name \in DOMAIN sc[vars.Locals[i]].r.m
  THEN LET i == CHOOSE k \in 1..Len(vars.Locals) :
                  /\ name \in DOMAIN sc[vars.Locals[k]].r.m
                  /\ \A j \in 1..(k - 1) : name \notin DOMAIN sc[vars.Locals[j]].r.m
       IN  [sc |-> sc, scope |-> vars.Locals[i], reg |-> sc[vars.Locals[i]].r.m[name]]
  ELSE scopeRegister(sc, LastScope(vars), name)

DefineVar(sc, id, reg, value) == [sc EXCEPT ![id].m = (reg :> value) @@ @]

GetVarOk(sc, id, reg) == reg \in DOMAIN sc[id].m

GetVar(sc, id, reg) == sc[id].m[reg]

\* VarScope.GetReturn
GetReturn(sc, id) ==
  IF GetVarOk(sc, id, RegisterReturn) THEN GetVar(sc, id, RegisterReturn) ELSE NewNone

\* Vars.SetReturn
SetReturn(sc, vars, v) ==
  IF vars.ParentBlockScope # "nil"
  THEN DefineVar(sc, vars.ParentBlockScope, RegisterReturn, v)
  ELSE DefineVar(sc, LastScope(vars), RegisterReturn, v)

(***************************************************************************)
(* Lowering of                                                             *)
(*     f = none                                                            *)
(*     y = ...                                                             *)
(*     f = |n| => { x = ...; ... f(...) ...; return ... or return y }      *)
(*     ... block { x = ...; return ... } ...                               *)
(*     y = ...                                                             *)
(* at the top level of a file (a name is registered after the right-hand   *)
(* side of its first assignment is lowered, so a function that calls       *)
(* itself by name is assigned to a name that already exists).              *)
(* OperandCodeGen creates the scope of the function literal and of the     *)
(* block expression once, while lowering.                                  *)
(***************************************************************************)
FuncVars == [WithScope(NewVars, "F") EXCEPT !.ParentBlockScope = "F"]

BlockVars == [WithScope(NewVars, "B") EXCEPT !.ParentBlockScope = "B"]

lowFn == Register([id \in ScopeIds |-> NewVarScope], NewVars, "f")

\* Scopes.lookup: walks the locals from the innermost outwards, then the
\* global scope
LookupRegister(sc, vars, name) ==
  IF \E i \in 1..Len(vars.Locals) : name \in DOMAIN sc[vars.Locals[i]].r.m
  THEN LET i == CHOOSE k \in 1..Len(vars.Locals) :
                  /\ name \in DOMAIN sc[vars.Locals[k]].r.m
                  /\ \A j \in (k + 1)..Len(vars.Locals) :
                       name \notin DOMAIN sc[vars.Locals[j]].r.m
       IN  [scope |-> vars.Locals[i], reg |-> sc[vars.Locals[i]].r.m[name], ok |-> TRUE]
  ELSE IF name \in DOMAIN sc[vars.Global].r.m
  THEN [scope |-> vars.Global, reg |-> sc[vars.Global].r.m[name], ok |-> TRUE]
  ELSE [scope |-> "nil", reg |-> RegisterReturn, ok |-> FALSE]

\* the top-level statement `y = ...`
lowOuter == Register(lowFn.sc, NewVars, "y")

lowArg == Register(lowOuter.sc, FuncVars, "n")

\* the operand y of `return y` in the body of f
lowOuterUse == LookupRegister(lowArg.sc, FuncVars, "y")

\* a Name evaler that yields the value the name had when f was created
nameEvalCaptured(sc, low) == outerSeen.atCreate

\* the evaler of a Name operand: scope.GetVar(reg) when it is evaluated
nameEval(sc, low) == GetVar(sc, low.scope, low.reg)

lowLocal == Register(lowArg.sc, FuncVars, "x")

lowBlkLocal == Register(lowLocal.sc, BlockVars, "x")

\* the bindings of names (everything but the return register) in a scope
Bindings(sc, id) == [reg \in DOMAIN sc[id].m \ {RegisterReturn} |-> sc[id].m[reg]]

CallValues == {VInt(1), VInt(2)}

ArgLists == {<<>>} \cup {<<v>> : v \in CallValues}

NoRet == [done |-> FALSE, viaReturn |-> FALSE, val |-> NewNone, err |-> ""]

CallInit ==
  /\ scopes = lowBlkLocal.sc
  /\ frames = <<>>
  /\ calls = 0
  /\ lastRet = NoRet
  /\ resumed = FALSE
  /\ outerSeen = [atCreate |-> NewNone, read |-> FALSE]

\* ExprStmt invoker of the top-level `y = v`: scope.DefineVar(reg, v)
AssignOuter(v) ==
  /\ frames = <<>>
  /\ scopes' = DefineVar(scopes, lowOuter.scope, lowOuter.reg, v)
  /\ resumed' = FALSE
  /\ outerSeen' = [outerSeen EXCEPT !.read = FALSE]
  /\ UNCHANGED <<frames, calls, lastRet>>

\* ExprStmt invoker of `f = |n| => {...}`: scope.DefineVar(reg, v); the
\* statement follows the first `y = ...`
DefineFunc ==
  /\ frames = <<>>
  /\ GetVarOk(scopes, lowOuter.scope, lowOuter.reg)
  /\ ~GetVarOk(scopes, lowFn.scope, lowFn.reg)
  /\ scopes' = DefineVar(scopes, lowFn.scope, lowFn.reg, NewFunc)
  /\ resumed' = FALSE
  /\ outerSeen' = [atCreate |-> GetVar(scopes, lowOuter.scope, lowOuter.reg), read |-> FALSE]
  /\ UNCHANGED <<frames, calls, lastRet>>

CanEnter ==
  \/ frames = <<>> /\ calls < MaxCalls
  \/ frames # <<>> /\ frames[Len(frames)].kind = "func" /\ Len(frames) < MaxDepth

\* a call f(vargs): the closure of FuncExprCodeGen runs prefn, then the body
CallFunc(vargs) ==
  /\ CanEnter
  /\ GetVarOk(scopes, lowFn.scope, lowFn.reg)
  /\ resumed' = FALSE
  /\ outerSeen' = [outerSeen EXCEPT !.read = FALSE]
  /\ calls' = IF frames = <<>> THEN calls + 1 ELSE calls
  /\ IF Len(vargs) # 1
     THEN /\ lastRet' = [done |-> TRUE, viaReturn |-> FALSE, val |-> NewNone,
                         err |-> "expected arguments"]
          /\ UNCHANGED <<scopes, frames>>
     ELSE /\ scopes' = DefineVar(scopes, lowArg.scope, lowArg.reg, vargs[1])
          /\ frames' =
               Append(IF frames = <<>> THEN frames
                      ELSE [frames EXCEPT ![Len(frames)].saved = Bindings(scopes, "F")],
                      [kind |-> "func", scope |-> LastScope(FuncVars), saved |-> <<>>])
          /\ UNCHANGED lastRet

\* an evaluation of the block expression: the evaler of BlockExprCodeGen
EvalBlock ==
  /\ frames = <<>>
  /\ calls < MaxCalls
  /\ calls' = calls + 1
  /\ frames' = <<[kind |-> "block", scope |-> LastScope(BlockVars), saved |-> <<>>]>>
  /\ resumed' = FALSE
  /\ outerSeen' = [outerSeen EXCEPT !.read = FALSE]
  /\ UNCHANGED <<scopes, lastRet>>

\* the statement `x = v` of the running body
BodyAssign(v) ==
  /\ frames # <<>>
  /\ LET top == frames[Len(frames)]
         low == IF top.kind = "func" THEN lowLocal ELSE lowBlkLocal
     IN  scopes' = DefineVar(scopes, low.scope, low.reg, v)
  /\ resumed' = FALSE
  /\ outerSeen' = [outerSeen EXCEPT !.read = FALSE]
  /\ UNCHANGED <<frames, calls, lastRet>>

\* the body leaves through `return v`: SetReturn, ErrStmtFinished is absorbed,
\* and the frame yields vars.LastScope().GetReturn()
BodyReturn(v) ==
  /\ frames # <<>>
  /\ LET top == frames[Len(frames)]
         vars == IF top.kind = "func" THEN FuncVars ELSE BlockVars
         sc == SetReturn(scopes, vars, v)
     IN  /\ scopes' = sc
         /\ lastRet' = [done |-> TRUE, viaReturn |-> TRUE,
                        val |-> GetReturn(sc, top.scope), err |-> ""]
  /\ frames' = SubSeq(frames, 1, Len(frames) - 1)
  /\ resumed' = (Len(frames) > 1)
  /\ outerSeen' = [outerSeen EXCEPT !.read = FALSE]
  /\ UNCHANGED calls

\* the body of f leaves through `return y`
BodyReturnOuter ==
  /\ frames # <<>>
  /\ frames[Len(frames)].kind = "func"
  /\ LET top == frames[Len(frames)]
         sc == SetReturn(scopes, FuncVars, nameEval(scopes, lowOuterUse))
     IN  /\ scopes' = sc
         /\ lastRet' = [done |-> TRUE, viaReturn |-> TRUE,
                        val |-> GetReturn(sc, top.scope), err |-> ""]
  /\ frames' = SubSeq(frames, 1, Len(frames) - 1)
  /\ resumed' = (Len(frames) > 1)
  /\ outerSeen' = [outerSeen EXCEPT !.read = TRUE]
  /\ UNCHANGED calls

\* the body runs to its end without a return
BodyEnd ==
  /\ frames # <<>>
  /\ lastRet' = [done |-> TRUE, viaReturn |-> FALSE,
                 val |-> GetReturn(scopes, frames[Len(frames)].scope), err |-> ""]
  /\ frames' = SubSeq(frames, 1, Len(frames) - 1)
  /\ resumed' = (Len(frames) > 1)
  /\ outerSeen' = [outerSeen EXCEPT !.read = FALSE]
  /\ UNCHANGED <<scopes, calls>>

(***************************************************************************)
(* memread and MemReader: the canonical bytes of a value.                  *)
(***************************************************************************)
RECURSIVE digits(_)
digits(n) == IF n < 10 THEN <<48 + n>> ELSE digits(n \div 10) \o <<48 + (n % 10)>>

\* big.Float.Append(buf, 'g', prec); a non-integer n/d is written "n/d", which
\* like the decimal text is one text per value
numRepr(x) ==
  IF x.inf > 0 THEN <<43, 73, 110, 102>>
  ELSE IF x.inf < 0 THEN <<45, 73, 110, 102>>
  ELSE (IF x.n < 0 \/ x.negz THEN <<45>> ELSE <<>>) \o digits(Abs(x.n))
       \o (IF x.d = 1 THEN <<>> ELSE <<47>> \o digits(x.d))

RECURSIVE MemReader(_)
RECURSIVE multiReader(_)
\* io.MultiReader over the MemReaders of the elements
multiReader(vs) ==
  IF vs = <<>> THEN [bytes |-> <<>>, err |-> ""]
  ELSE LET h == MemReader(Head(vs))
           t == multiReader(Tail(vs))
       IN  IF h.err # "" THEN h
           ELSE IF t.err # "" THEN t
           ELSE [bytes |-> h.bytes \o t.bytes, err |-> ""]

\* io.ReadAll(v.MemReader()); memReaderBool.Read stores the byte but reports
\* n = 0, so the payload of a Bool is not part of what is read
MemReader(x) ==
  CASE x.t = "null" -> [bytes |-> <<TypeNone>>, err |-> ""]
    [] x.t = "bool" -> [bytes |-> <<TypeBool>>, err |-> ""]
    [] x.t = "number" -> [bytes |-> <<TypeNum>> \o numRepr(x), err |-> ""]
    [] x.t = "string" -> [bytes |-> <<TypeString>> \o x.s, err |-> ""]
    [] x.t = "array" ->
         LET r == multiReader(x.v)
         IN  IF r.err # "" THEN r ELSE [bytes |-> <<TypeArray>> \o r.bytes, err |-> ""]
    [] OTHER -> [bytes |-> <<>>, err |-> "function has no memory"]

(***************************************************************************)
(* Object: NewObject, Set, IterFunc.                                       *)
(***************************************************************************)
MaxItems == 2
MaxSets == 1
MaxArr == 2
MaxIters == 2

EmptyObject == [v |-> <<>>, keys |-> <<>>]

\* m[string(kb)] = v; ks[string(kb)] = k
storeKey(o, kb, k, v) == [v |-> (kb :> v) @@ o.v, keys |-> (kb :> k) @@ o.keys]

\* Object.Set
objSet(o, k, v) ==
  LET kb == MemReader(k)
  IN  IF kb.err # "" THEN [obj |-> o, err |-> "not hashable"]
      ELSE [obj |-> storeKey(o, kb.bytes, k, v), err |-> ""]

RECURSIVE newObjectFrom(_, _, _)
newObjectFrom(o, keys, values) ==
  IF keys = <<>> THEN [obj |-> o, err |-> ""]
  ELSE LET kb == MemReader(Head(keys))
       IN  IF kb.err # "" THEN [obj |-> EmptyObject, err |-> "read key mem"]
           ELSE newObjectFrom(storeKey(o, kb.bytes, Head(keys), Head(values)),
                              Tail(keys), Tail(values))

NewObject(keys, values) ==
  IF Len(keys) # Len(values)
  THEN [obj |-> EmptyObject, err |-> "the number of keys does not match the number of values"]
  ELSE newObjectFrom(EmptyObject, keys, values)

objLen(o) == Cardinality(DOMAIN o.v)

KeySet == {NewBool(TRUE), NewBool(FALSE), NewString(<<97>>), Bytes(<<1>>), NewArray(<<>>)}

ValueSet == {VInt(1), VInt(2)}

ArrayColls ==
  {NewArray(SubSeq(<<VInt(1), VInt(2), VInt(3)>>, 1, n)) : n \in 0..MaxArr}
  \cup {Bytes(SubSeq(<<1, 2, 3>>, 1, n)) : n \in 0..MaxArr}

arrLen(a) == IF a.bmode THEN Len(a.s) ELSE Len(a.v)

ErrStmtFinished == "stmt finished"
ErrLoopContinue == "loop continue"
ErrLoopBreak == "loop break"

BodyResults == {"", ErrLoopBreak, ErrLoopContinue, ErrStmtFinished, "runtime error"}

CondSet == {NewBool(TRUE), NewBool(FALSE), NewNone}

pairsOf(keys, values) == [i \in 1..Len(keys) |-> <<keys[i], values[i]>>]

ObjInit ==
  \E n \in 0..MaxItems :
    \E keys \in [1..n -> KeySet], values \in [1..n -> ValueSet] :
      /\ obj = NewObject(keys, values).obj
      /\ history = pairsOf(keys, values)
      /\ sets = 0
      /\ loopKind = "none"
      /\ coll = NewArray(<<>>)
      /\ loopPc = "idle"
      /\ loopIdx = 0
      /\ visited = <<>>
      /\ loopRet = ""
      /\ bodyErr = ""
      /\ lateIter = FALSE
      /\ run = 1
      /\ firstTrace = <<>>
      /\ plain = TRUE

ObjSet(k, v) ==
  /\ loopPc = "idle"
  /\ sets < MaxSets
  /\ LET r == objSet(obj, k, v)
     IN  /\ obj' = r.obj
         /\ history' = IF r.err = "" THEN Append(history, <<k, v>>) ELSE history
  /\ sets' = sets + 1
  /\ UNCHANGED <<loopKind, coll, loopPc, loopIdx, visited, loopRet, bodyErr, lateIter,
                 run, firstTrace, plain>>

\* the outcome of one body invocation, as the ghosts of the loop see it
noteBody(res) ==
  /\ lateIter' = (lateIter \/ bodyErr # "")
  /\ bodyErr' = IF bodyErr = "" /\ res \notin {"", ErrLoopBreak, ErrLoopContinue}
                THEN res ELSE bodyErr
  /\ plain' = (plain /\ res = "")

\* WhileStmtCodeGen invoker: one turn of the for {} loop
WhileIter(cond, res) ==
  /\ loopPc \in {"idle", "iter"}
  /\ loopKind \in {"none", "while"}
  /\ run = 1
  /\ loopKind' = "while"
  /\ IF cond.t # "bool"
     THEN /\ loopPc' = "done"
          /\ loopRet' = "condition expression must be bool"
          /\ UNCHANGED <<loopIdx, bodyErr, lateIter, plain>>
     ELSE IF ~cond.b
     THEN /\ loopPc' = "done"
          /\ loopRet' = ""
          /\ UNCHANGED <<loopIdx, bodyErr, lateIter, plain>>
     ELSE /\ loopIdx < MaxIters
          /\ loopIdx' = loopIdx + 1
          /\ noteBody(res)
          /\ IF res = ErrLoopBreak
             THEN loopPc' = "done" /\ loopRet' = ""
             ELSE IF res = ErrLoopContinue \/ res = ""
             THEN loopPc' = "iter" /\ UNCHANGED loopRet
             ELSE loopPc' = "done" /\ loopRet' = res
  /\ UNCHANGED <<obj, history, sets, coll, visited, run, firstTrace>>

\* ForStmtCodeGen invoker: the collection evaluates to an Array
ForArrayStart(arr) ==
  /\ loopPc = "idle"
  /\ loopKind = "none"
  /\ loopKind' = "array"
  /\ coll' = arr
  /\ IF arrLen(arr) = 0
     THEN loopPc' = "done" /\ loopRet' = ""
     ELSE loopPc' = "iter" /\ UNCHANGED loopRet
  /\ UNCHANGED <<obj, history, sets, loopIdx, visited, bodyErr, lateIter, run,
                 firstTrace, plain>>

\* one turn of `for i, el := range bs` / `range s`
ForArrayIter(res) ==
  /\ loopPc = "iter"
  /\ loopKind = "array"
  /\ loopIdx < arrLen(coll)
  /\ loopIdx' = loopIdx + 1
  /\ noteBody(res)
  /\ visited' = Append(visited,
                  [kb |-> <<>>,
                   key |-> IF coll.bmode THEN UInt(coll.s[loopIdx + 1])
                           ELSE coll.v[loopIdx + 1]])
  /\ IF res = ErrLoopBreak
     THEN loopPc' = "done" /\ loopRet' = ""
     ELSE IF res = ErrLoopContinue \/ res = ""
     THEN IF loopIdx + 1 = arrLen(coll)
          THEN loopPc' = "done" /\ loopRet' = ""
          ELSE loopPc' = "iter" /\ UNCHANGED loopRet
     ELSE loopPc' = "done" /\ loopRet' = res
  /\ UNCHANGED <<obj, history, sets, loopKind, coll, run, firstTrace>>

\* ForStmtCodeGen invoker: the collection evaluates to the Object
ForObjectStart ==
  /\ loopPc = "idle"
  /\ loopKind = "none"
  /\ loopKind' = "object"
  /\ IF objLen(obj) = 0
     THEN loopPc' = "done" /\ loopRet' = ""
     ELSE loopPc' = "iter" /\ UNCHANGED loopRet
  /\ UNCHANGED <<obj, history, sets, coll, loopIdx, visited, bodyErr, lateIter, run,
                 firstTrace, plain>>

seenKb == {visited[i].kb : i \in 1..Len(visited)}

\* Object.IterFunc: one turn of `for k, val := range v.v`; the order in which a
\* Go map yields its keys is unspecified, so any key not yet yielded may be next
ForObjectIter(kb, res) ==
  /\ loopPc = "iter"
  /\ loopKind = "object"
  /\ kb \in DOMAIN obj.v \ seenKb
  /\ loopIdx' = loopIdx + 1
  /\ noteBody(res)
  /\ visited' = Append(visited, [kb |-> kb, key |-> obj.keys[kb]])
  /\ IF res = ErrLoopBreak \/ DOMAIN obj.v \ seenKb = {kb}
     THEN loopPc' = "done" /\ loopRet' = ""
     ELSE loopPc' = "iter" /\ UNCHANGED loopRet
  /\ UNCHANGED <<obj, history, sets, loopKind, coll, run, firstTrace>>

\* the same loop statement is run a second time in the same environment
LoopRerun ==
  /\ loopPc = "done"
  /\ loopKind = "object"
  /\ run = 1
  /\ run' = 2
  /\ firstTrace' = visited
  /\ visited' = <<>>
  /\ loopIdx' = 0
  /\ bodyErr' = ""
  /\ lateIter' = FALSE
  /\ IF objLen(obj) = 0
     THEN loopPc' = "done" /\ loopRet' = ""
     ELSE loopPc' = "iter" /\ loopRet' = ""
  /\ UNCHANGED <<obj, history, sets, loopKind, coll, plain>>

(***************************************************************************)
(* ImportExprCodeGen.CodeGen: the importer.  Lowering an import expression *)
(* lowers the imported file, recursively, before it returns.               *)
(***************************************************************************)
MaxImports == 2
MaxImportDepth == 6

FileNames == {"a", "b", "c"}

RootFile == "a"

ErrImportCycle == "import cycle not allowed"
ErrNotExist == "file does not exist"

ImportLists == UNION {[1..n -> FileNames] : n \in 0..MaxImports}

\* importsInfo as Program.CodeGen of the root file receives it: the set is made
\* once per execution, and may or may not already hold the root's own path
ImportInit ==
  /\ files \in [FileNames -> ImportLists]
  /\ present \in {FileNames, FileNames \ {"c"}}
  /\ importedPaths \in {{}, {RootFile}}
  /\ lowerStack = <<[file |-> RootFile, next |-> 1]>>
  /\ importPc = "lowering"
  /\ importErr = ""
  /\ failPath = ""
  /\ failChain = {}

onChain == {lowerStack[i].file : i \in 1..Len(lowerStack)}

\* the guard of the importer: a path already in ImportedPaths is refused
alreadyImported(path) == path \in importedPaths

\* an importer that forgets to record the path
recordImportDropped(path) == importedPaths

\* the importer records the path it is about to lower
recordImport(path) == importedPaths \cup {path}

importFail(path, err) ==
  /\ importPc' = "error"
  /\ importErr' = err
  /\ failPath' = path
  /\ failChain' = onChain
  /\ lowerStack' = <<>>

\* CodeGen of the next import expression of the file on top of the stack;
\* MaxImportDepth caps the recursion of the model only, and is never reached
\* when the guard of the importer bounds the chain
LowerImport ==
  /\ importPc = "lowering"
  /\ Len(lowerStack) < MaxImportDepth
  /\ LET top == lowerStack[Len(lowerStack)]
         path == files[top.file][top.next]
     IN  /\ top.next <= Len(files[top.file])
         /\ IF alreadyImported(path)
            THEN /\ importFail(path, ErrImportCycle)
                 /\ UNCHANGED importedPaths
            ELSE /\ importedPaths' = recordImport(path)
                 /\ IF path \notin present
                    THEN importFail(path, ErrNotExist)
                    ELSE /\ lowerStack' =
                              Append([lowerStack EXCEPT ![Len(lowerStack)].next = top.next + 1],
                                     [file |-> path, next |-> 1])
                         /\ UNCHANGED <<importPc, importErr, failPath, failChain>>
  /\ UNCHANGED <<files, present>>

\* Program.CodeGen of the file on top of the stack has lowered every statement
LowerFileDone ==
  /\ importPc = "lowering"
  /\ LET top == lowerStack[Len(lowerStack)]
     IN  top.next > Len(files[top.file])
  /\ lowerStack' = SubSeq(lowerStack, 1, Len(lowerStack) - 1)
  /\ importPc' = IF Len(lowerStack) = 1 THEN "ok" ELSE "lowering"
  /\ UNCHANGED <<files, present, importedPaths, importErr, failPath, failChain>>

(***************************************************************************)
(* Lowering of the statements of one file: StmtCodeGen, BlockStmtCodeGen,   *)
(* IfStmtCodeGen, WhileStmtCodeGen, ForStmtCodeGen and the function and     *)
(* block-expression operands.  The file holds one statement: a leaf         *)
(* (return, break, continue, or a call of a builtin by its bare name)       *)
(* wrapped in the constructs of lowPath, outermost first.                   *)
(***************************************************************************)
VARIABLES
  lowFile,    \* "root": lowered by Machine.Compile; "imported": by the importer
  lowOrig,    \* the wrappers of the statement, outermost first
  lowPath,    \* the wrappers not yet lowered
  lowLeaf,    \* "return", "break", "continue", "name"
  lowCtx,     \* the StmtCodeGen in charge: [isLoopScope, isGlobalScope]
  lowGlobal,  \* the names registered in vars.Global of the file
  lowPc,      \* "lowering", "ok", "error"
  lowErr      \* the compile error

lowerVars == <<lowFile, lowOrig, lowPath, lowLeaf, lowCtx, lowGlobal, lowPc, lowErr>>

MaxNest == 3

Wrappers == {"if", "while", "for", "func", "block"}

Leaves == {"return", "break", "continue", "name"}

\* the names of the objects of the builtin package the model keeps
BuiltinNames == {"len", "println"}

\* the name the leaf "name" refers to
UsedName == "len"

ErrReturnGlobal == "return statement cannot be used in global scope"
ErrContinueOutside == "continue statement cannot be used outside of a loop"
ErrBreakOutside == "break statement cannot be used outside of a loop"
ErrNotDefined == "variable not defined"

\* Machine.Compile: every object of the builtin package is registered in
\* m.vars.Global before the file is lowered
preloadBuiltin == BuiltinNames

\* ImportExprCodeGen.CodeGen: vars := NewVars(), handed to Program.CodeGen as is
importedGlobal == {}

\* Program.CodeGen: StmtCodeGen{isGlobalScope: true}
programCtx == [isLoopScope |-> FALSE, isGlobalScope |-> TRUE]

\* IfStmtCodeGen: BlockStmtCodeGen{isLoopScope: c.isLoopScope}
ifCtx(ctx) == [isLoopScope |-> ctx.isLoopScope, isGlobalScope |-> FALSE]

\* WhileStmtCodeGen, ForStmtCodeGen: BlockStmtCodeGen{isLoopScope: true}
loopCtx(ctx) == [isLoopScope |-> TRUE, isGlobalScope |-> FALSE]

\* a body that keeps the isLoopScope of the statement the literal stands in
frameCtxInherited(ctx) == [isLoopScope |-> ctx.isLoopScope, isGlobalScope |-> FALSE]

\* FuncExprCodeGen, BlockExprCodeGen: BlockStmtCodeGen{exprGen: c.exprGen}
frameCtx(ctx) == [isLoopScope |-> FALSE, isGlobalScope |-> FALSE]

\* the scopes WithScope() adds hold no name of the file's statement, so a
\* lookup of a name finds it exactly when vars.Global has registered it
lookupOk(name) == name \in lowGlobal

LowerInit ==
  \E n \in 0..MaxNest :
    \E path \in [1..n -> Wrappers] :
      /\ lowFile \in {"root", "imported"}
      /\ lowOrig = path
      /\ lowPath = path
      /\ lowLeaf \in Leaves
      /\ lowCtx = programCtx
      /\ lowGlobal = IF lowFile = "root" THEN preloadBuiltin ELSE importedGlobal
      /\ lowPc = "lowering"
      /\ lowErr = ""

lowerInto(ctx) ==
  /\ lowPath' = Tail(lowPath)
  /\ lowCtx' = ctx
  /\ UNCHANGED <<lowFile, lowOrig, lowLeaf, lowGlobal, lowPc, lowErr>>

lowerEnds(err) ==
  /\ lowPc' = IF err = "" THEN "ok" ELSE "error"
  /\ lowErr' = err
  /\ UNCHANGED <<lowFile, lowOrig, lowPath, lowLeaf, lowCtx, lowGlobal>>

\* StmtCodeGen.CodeGen, case node.If
LowerIf ==
  /\ lowPc = "lowering" /\ lowPath # <<>> /\ Head(lowPath) = "if"
  /\ lowerInto(ifCtx(lowCtx))

\* StmtCodeGen.CodeGen, case node.While
LowerWhile ==
  /\ lowPc = "lowering" /\ lowPath # <<>> /\ Head(lowPath) = "while"
  /\ lowerInto(loopCtx(lowCtx))

\* StmtCodeGen.CodeGen, case node.For
LowerFor ==
  /\ lowPc = "lowering" /\ lowPath # <<>> /\ Head(lowPath) = "for"
  /\ lowerInto(loopCtx(lowCtx))

\* an expression statement whose operand is a function literal with a block body
LowerFunc ==
  /\ lowPc = "lowering" /\ lowPath # <<>> /\ Head(lowPath) = "func"
  /\ lowerInto(frameCtx(lowCtx))

\* an expression statement whose operand is a block expression
LowerBlock ==
  /\ lowPc = "lowering" /\ lowPath # <<>> /\ Head(lowPath) = "block"
  /\ lowerInto(frameCtx(lowCtx))

\* StmtCodeGen.CodeGen, case node.Return
LowerReturn ==
  /\ lowPc = "lowering" /\ lowPath = <<>> /\ lowLeaf = "return"
  /\ lowerEnds(IF lowCtx.isGlobalScope THEN ErrReturnGlobal ELSE "")

\* StmtCodeGen.CodeGen, case node.Continue
LowerContinue ==
  /\ lowPc = "lowering" /\ lowPath = <<>> /\ lowLeaf = "continue"
  /\ lowerEnds(IF ~lowCtx.isLoopScope THEN ErrContinueOutside ELSE "")

\* StmtCodeGen.CodeGen, case node.Break
LowerBreak ==
  /\ lowPc = "lowering" /\ lowPath = <<>> /\ lowLeaf = "break"
  /\ lowerEnds(IF ~lowCtx.isLoopScope THEN ErrBreakOutside ELSE "")

\* OperandCodeGen.CodeGen, case node.Name
LowerName ==
  /\ lowPc = "lowering" /\ lowPath = <<>> /\ lowLeaf = "name"
  /\ lowerEnds(IF lookupOk(UsedName) THEN "" ELSE ErrNotDefined)

(***************************************************************************)
(* Operations on values, applied to inputs drawn from bounded sets: the     *)
(* indexer of an Array, DeepEqual next to the canonical bytes, the object   *)
(* literal and the modulus.                                                 *)
(***************************************************************************)
VARIABLES
  valOp,      \* the operation applied last: "none", "index", ...
  valIn,      \* its inputs (the keys and the values of a literal as two lists)
  valOut      \* its outcome: [val, err, panic]

valueVars == <<valOp, valIn, valOut>>

MaxIdx == 4

\* an outcome of Go code: a value, a returned error, or a run-time panic
Returned(v) == [val |-> v, err |-> "", panic |-> FALSE]

Errored(msg) == [val |-> NewNone, err |-> msg, panic |-> FALSE]

Panicked == [val |-> NewNone, err |-> "", panic |-> TRUE]

\* s[i] of a Go slice (0-based): a run-time panic when i is out of range
sliceAt(s, i) == IF 0 <= i /\ i < Len(s) THEN Returned(s[i + 1]) ELSE Panicked

\* Array.GetByte
GetByte(v, idx) ==
  IF ~v.bmode THEN Errored("use Get() instead for generic array")
  ELSE LET norm == IF idx < 0 THEN Len(v.s) + idx ELSE idx
       IN  IF norm >= Len(v.s) THEN Errored("index out of range")
           ELSE sliceAt(v.s, idx)

\* Array.Get
Get(v, idx) ==
  IF v.bmode
  THEN LET b == GetByte(v, idx)
       IN  IF b.panic \/ b.err # "" THEN b ELSE Returned(UInt(b.val))
  ELSE LET norm == IF idx < 0 THEN Len(v.v) + idx ELSE idx
       IN  IF norm >= Len(v.v) THEN Errored("index out of range")
           ELSE sliceAt(v.v, norm)

\* the evaler of an indexer `prev[idx]` whose prev is an Array
indexArray(arr, idx) ==
  IF idx.t # "number" THEN Errored("index must be number")
  ELSE IF ~IsInt(idx) THEN Errored("cannot to represent number as unsigned integer")
  ELSE LET val == Get(arr, idx.n)
       IN  IF ~val.panic /\ val.err # "" THEN Errored("cannot get array element") ELSE val

IndexSet == {VInt(i) : i \in (0 - MaxIdx)..MaxIdx} \cup {Rat(1, 2), NewBool(TRUE)}

\* one operation is applied to one choice of inputs
ValueInit ==
  /\ valOp = "none"
  /\ valIn = <<>>
  /\ valOut = Returned(NewNone)

IndexArray(arr, idx) ==
  /\ valOp = "none"
  /\ valOp' = "index"
  /\ valIn' = <<arr, idx>>
  /\ valOut' = indexArray(arr, idx)

\* the case TypeObject of DeepEqual
ObjectDeepEqual(lobj, robj) ==
  /\ objLen(lobj) = objLen(robj)
  /\ \A k \in DOMAIN lobj.v : k \in DOMAIN robj.v /\ DeepEqual(lobj.v[k], robj.v[k])

\* the orders in which `range v.v` can yield the keys of the map of an Object
rangeOrders(o) ==
  {q \in [1..objLen(o) -> DOMAIN o.v] : \A i, j \in 1..objLen(o) : i # j => q[i] # q[j]}

\* the io.MultiReader of Object.MemReader: for each key in range order, the
\* bytes of the key and then the MemReader of its value
RECURSIVE objectEntries(_, _)
objectEntries(o, order) ==
  IF order = <<>> THEN [bytes |-> <<>>, err |-> ""]
  ELSE LET h == MemReader(o.v[Head(order)])
           t == objectEntries(o, Tail(order))
       IN  IF h.err # "" THEN h
           ELSE IF t.err # "" THEN t
           ELSE [bytes |-> Head(order) \o h.bytes \o t.bytes, err |-> ""]

\* io.ReadAll(v.MemReader()) of an Object whose map is ranged in `order`
ObjectMemReader(o, order) ==
  LET r == objectEntries(o, order)
  IN  IF r.err # "" THEN r ELSE [bytes |-> <<TypeObject>> \o r.bytes, err |-> ""]

\* MustNewObject never returns an error: it panics on the error of NewObject
MustNewObject(keys, values) ==
  LET r == NewObject(keys, values)
  IN  IF r.err # "" THEN Panicked ELSE Returned(r.obj)

\* the evaler of an object literal whose key and value expressions evaluated
\* to keys and values
objectLit(keys, values) == MustNewObject(keys, values)

\* evalBinary("%", x, y) as an outcome
modOf(x, y) ==
  LET r == evalBinary("%", x, y)
  IN  IF r.err # "" THEN Errored(r.err) ELSE Returned(r.val)

MaxHalves == 8
MaxLit == 2

CompareSet ==
  {NewNone, NewBool(TRUE), NewBool(FALSE), VInt(0), NegZero, VInt(1), Rat(1, 2), Inf,
   NewString(<<>>), NewString(<<97>>), NewArray(<<>>), NewArray(<<VInt(0)>>),
   NewArray(<<NegZero>>), NewArray(<<VInt(1)>>), Bytes(<<1>>), Bytes(<<2>>)}

EntryKeySet == {NewString(<<97>>), VInt(1)}

EntryValueSet == {VInt(0), NegZero, NewBool(TRUE)}

\* the sequences of length n over S
RECURSIVE tuplesOf(_, _)
tuplesOf(S, n) ==
  IF n = 0 THEN {<<>>} ELSE {Append(q, e) : q \in tuplesOf(S, n - 1), e \in S}

EntryObjects ==
  UNION {{NewObject(keys, values).obj :
            keys \in tuplesOf(EntryKeySet, n), values \in tuplesOf(EntryValueSet, n)} :
         n \in 0..MaxLit}

LitKeySet ==
  {NewBool(TRUE), NewBool(FALSE), NewString(<<97>>), VInt(1), NewFunc, NewArray(<<NewFunc>>)}

ModSet == {Rat(i, 2) : i \in (0 - MaxHalves)..MaxHalves} \cup {NegZero, Inf, NegInf}

\* DeepEqual(a, b) next to the canonical bytes of a and of b
CompareValues(a, b) ==
  /\ valOp = "none"
  /\ valOp' = "compare"
  /\ valIn' = <<a, b>>
  /\ valOut' = Returned([eq |-> DeepEqual(a, b), x |-> MemReader(a), y |-> MemReader(b)])

\* the same for two Objects, each ranged in one of its orders
CompareObjects(lobj, robj, lorder, rorder) ==
  /\ valOp = "none"
  /\ valOp' = "compareObjects"
  /\ valIn' = <<lobj, robj, lorder, rorder>>
  /\ valOut' = Returned([eq |-> ObjectDeepEqual(lobj, robj),
                         x |-> ObjectMemReader(lobj, lorder),
                         y |-> ObjectMemReader(robj, rorder)])

ObjectLiteral(keys, values) ==
  /\ valOp = "none"
  /\ valOp' = "literal"
  /\ valIn' = <<NewArray(keys), NewArray(values)>>
  /\ valOut' = objectLit(keys, values)

Mod(x, y) ==
  /\ valOp = "none"
  /\ valOp' = "mod"
  /\ valIn' = <<x, y>>
  /\ valOut' = modOf(x, y)

(***************************************************************************)
(* package registry: the packages registered under their names.            *)
(***************************************************************************)
VARIABLES
  regPackages,  \* reg.packages: name -> package
  regLast       \* the Register call made last: [pkg, err]

registryVars == <<regPackages, regLast>>

MaxObjs == 2

\* a package object: its Name() and which object it is
Pkg(name, id) == [name |-> name, id |-> id]

\* builtin.Package and iter.Package
builtinPackage == Pkg("builtin", 1)

iterPackage == Pkg("iter", 1)

ErrReserved == "package name 'builtin' is reserved"
\* the text of the code also quotes the name
ErrAlreadyRegistered == "package name is already registered"

PkgNames == {"builtin", "iter", "a", "b", "c"}

\* the package objects a host can pass, several under each name
PkgSet == {Pkg(name, id) : name \in PkgNames, id \in 1..MaxObjs}

\* registry.New
New == ("builtin" :> builtinPackage) @@ ("iter" :> iterPackage)

\* a Register that stores the package whatever the map holds
registerOverwriting(packages, pkg) ==
  IF pkg.name = builtinPackage.name
  THEN IF pkg # builtinPackage
       THEN [packages |-> packages, err |-> ErrReserved]
       ELSE [packages |-> packages, err |-> ""]
  ELSE [packages |-> (pkg.name :> pkg) @@ packages, err |-> ""]

\* a Register that refuses every package named builtin
registerStrict(packages, pkg) ==
  IF pkg.name = builtinPackage.name
  THEN [packages |-> packages, err |-> ErrReserved]
  ELSE IF pkg.name \in DOMAIN packages
  THEN [packages |-> packages, err |-> ErrAlreadyRegistered]
  ELSE [packages |-> (pkg.name :> pkg) @@ packages, err |-> ""]

\* Registry.Register
registryRegister(packages, pkg) ==
  IF pkg.name = builtinPackage.name
  THEN IF pkg # builtinPackage
       THEN [packages |-> packages, err |-> ErrReserved]
       ELSE [packages |-> packages, err |-> ""]
  ELSE IF pkg.name \in DOMAIN packages
  THEN [packages |-> packages, err |-> ErrAlreadyRegistered]
  ELSE [packages |-> (pkg.name :> pkg) @@ packages, err |-> ""]

NoCall == [pkg |-> Pkg("", 0), err |-> ""]

RegistryInit ==
  /\ regPackages = New
  /\ regLast = NoCall

RegisterPackage(pkg) ==
  /\ regPackages' = registryRegister(regPackages, pkg).packages
  /\ regLast' = [pkg |-> pkg, err |-> registryRegister(regPackages, pkg).err]

(***************************************************************************)
(* The operator list of long chains.  sort.Slice is not a stable sort: up   *)
(* to 12 elements it runs the insertion sort above, beyond that a           *)
(* pattern-defeating quicksort whose partitioning exchanges elements across *)
(* equal ones.  Its contract fixes the result only up to the order of the   *)
(* elements neither of which is less than the other, so for more than 12    *)
(* operators the list handed to the evaluator is any one of the             *)
(* arrangements of the operators that is sorted under less.                 *)
(***************************************************************************)
VARIABLES
  sortChain,  \* the operators of the chain in source order
  sortOps,    \* the opinfo list the evaluator walks
  sortPc      \* "parsed", "lowered"

sortVars == <<sortChain, sortOps, sortPc>>

MaxChain == 13

\* the longest slice sort.Slice sorts by insertion sort alone
maxInsertion == 12

\* every arrangement of the elements of xs
RECURSIVE arrangements(_)
arrangements(xs) ==
  IF xs = <<>> THEN {<<>>}
  ELSE UNION {{<<xs[i]>> \o rest :
                 rest \in arrangements(SubSeq(xs, 1, i - 1) \o SubSeq(xs, i + 1, Len(xs)))} :
              i \in 1..Len(xs)}

\* the operators of xs of one priority, in source order
samePrior(xs, p) == SelectSeq(xs, LAMBDA x : x.prior = p)

\* the orders sort.Slice may leave the slice in
sortSliceOrders(xs) ==
  IF Len(xs) <= maxInsertion
  THEN {sortSlice(xs)}
  ELSE {g5 \o g4 \o g3 \o g2 \o g1 :
          g5 \in arrangements(samePrior(xs, 5)),
          g4 \in arrangements(samePrior(xs, 4)),
          g3 \in arrangements(samePrior(xs, 3)),
          g2 \in arrangements(samePrior(xs, 2)),
          g1 \in arrangements(samePrior(xs, 1))}

\* one operator of each priority, in every order
LevelOrders ==
  {f \in [1..5 -> {"*", "-", "<", "and", "or"}] : \A i, j \in 1..5 : f[i] = f[j] => i = j}

\* chains of n operators that run through the five priorities in a fixed order
LongChains(n) == {[i \in 1..n |-> f[((i - 1) % 5) + 1]] : f \in LevelOrders}

SortInit ==
  \E n \in 1..MaxChain :
    /\ sortChain \in LongChains(n)
    /\ sortOps = <<>>
    /\ sortPc = "parsed"

\* ExprCodeGen.CodeGen: the opinfo list is built and handed to sort.Slice
SortOps ==
  /\ sortPc = "parsed"
  /\ sortOps' \in sortSliceOrders([i \in 1..Len(sortChain) |-> opinfo(sortChain[i], i - 1)])
  /\ sortPc' = "lowered"
  /\ UNCHANGED sortChain

(***************************************************************************)
(* The evaluator of a binary chain entered again while it runs.  The       *)
(* closure ExprCodeGen.CodeGen returns owns one stack, one evalMask and    *)
(* one pair leval, reval; an operand that calls the function the chain     *)
(* stands in runs the same closure before the outer run has finished.      *)
(* The chain is the body of a function that returns 1 at depth reDepth and *)
(* the value of the chain above it; operand reRec is the recursive call.   *)
(***************************************************************************)
VARIABLES
  reChain,   \* the operators of the chain in source order
  reRec,     \* the operand (0-based) that calls the function again
  reDepth,   \* the depth at which the function returns without the chain
  reStack,   \* stack of the closure
  reMask,    \* evalMask of the closure
  reLeval,   \* leval of the closure: an operand, or -1 for nil
  reReval,   \* reval of the closure
  reFrames,  \* the runs of the closure in progress, innermost last
  rePc,      \* "run", "done", "panic", "error"
  reOut,     \* the value the outermost run returned
  reRetLen   \* len(stack) at the last return, -1 before any

reenterVars == <<reChain, reRec, reDepth, reStack, reMask, reLeval, reReval,
                 reFrames, rePc, reOut, reRetLen>>

MaxReOps == 3
MaxReDepth == 2

ReOpSet == {"*", "+", "-"}

reOps == lowerChain(reChain)

reTop == reFrames[Len(reFrames)]

setTop(f) == [reFrames EXCEPT ![Len(reFrames)] = f]

NewFrame == [pc |-> "call", k |-> 1, lval |-> NewNone, rval |-> NewNone]

clearMask == [i \in 0..Len(reChain) |-> FALSE]

\* the operands that are not the recursive call, and the value at reDepth
operandValue(i) == IF i = reRec THEN VInt(1) ELSE VInt(i + 2)

ReenterInit ==
  \E n \in 1..MaxReOps :
    /\ reChain \in [1..n -> ReOpSet]
    /\ reRec \in 0..n
    /\ reDepth \in 0..MaxReDepth
    /\ reStack = <<>>
    /\ reMask = [i \in 0..n |-> FALSE]
    /\ reLeval = -1
    /\ reReval = -1
    /\ reFrames = <<NewFrame>>
    /\ rePc = "run"
    /\ reOut = NewNone
    /\ reRetLen = -1

\* the closure is entered: clear(evalMask); stack = stack[:0]
ReEvalStart ==
  /\ rePc = "run"
  /\ reTop.pc = "call"
  /\ reMask' = clearMask
  /\ reStack' = <<>>
  /\ reFrames' = setTop([reTop EXCEPT !.pc = "op", !.k = 1])
  /\ UNCHANGED <<reChain, reRec, reDepth, reLeval, reReval, rePc, reOut, reRetLen>>

\* the head of one iteration: leval, reval and evalMask are set
ReNextOp ==
  /\ rePc = "run"
  /\ reTop.pc = "op"
  /\ reTop.k <= Len(reOps)
  /\ LET i == reOps[reTop.k].origPos IN
       /\ reLeval' = IF ~reMask[i] THEN i ELSE -1
       /\ reReval' = IF ~reMask[i + 1] THEN i + 1 ELSE -1
       /\ reMask' = [reMask EXCEPT ![i] = TRUE, ![i + 1] = TRUE]
  /\ reFrames' = setTop([reTop EXCEPT !.pc = "rval"])
  /\ UNCHANGED <<reChain, reRec, reDepth, reStack, rePc, reOut, reRetLen>>

\* getVal(eval, &stack) when the run of frame f asks for the operand eval:
\* pop for nil, a new run of the closure for the recursive call
getVal(eval, field, next, wait) ==
  IF eval < 0
  THEN IF reStack = <<>>
       THEN /\ rePc' = "panic"
            /\ UNCHANGED <<reStack, reFrames>>
       ELSE /\ reStack' = SubSeq(reStack, 1, Len(reStack) - 1)
            /\ reFrames' = setTop([reTop EXCEPT ![field] = reStack[Len(reStack)], !.pc = next])
            /\ UNCHANGED rePc
  ELSE IF eval = reRec /\ Len(reFrames) <= reDepth
  THEN /\ reFrames' = Append(setTop([reTop EXCEPT !.pc = wait]), NewFrame)
       /\ UNCHANGED <<reStack, rePc>>
  ELSE /\ reFrames' = setTop([reTop EXCEPT ![field] = operandValue(eval), !.pc = next])
       /\ UNCHANGED <<reStack, rePc>>

\* rval, err := getVal(reval, &stack)
ReGetRval ==
  /\ rePc = "run"
  /\ reTop.pc = "rval"
  /\ getVal(reReval, "rval", "lval", "rwait")
  /\ UNCHANGED <<reChain, reRec, reDepth, reMask, reLeval, reReval, reOut, reRetLen>>

\* lval, err := getVal(leval, &stack)
ReGetLval ==
  /\ rePc = "run"
  /\ reTop.pc = "lval"
  /\ getVal(reLeval, "lval", "apply", "lwait")
  /\ UNCHANGED <<reChain, reRec, reDepth, reMask, reLeval, reReval, reOut, reRetLen>>

\* res, err := evalBinary(opinfo.op, lval, rval); stack = append(stack, res)
ReApply ==
  /\ rePc = "run"
  /\ reTop.pc = "apply"
  /\ LET res == evalBinary(reOps[reTop.k].op, reTop.lval, reTop.rval) IN
       IF res.err # ""
       THEN /\ rePc' = "error"
            /\ UNCHANGED <<reStack, reFrames>>
       ELSE /\ reStack' = Append(reStack, res.val)
            /\ reFrames' = setTop([reTop EXCEPT !.pc = "op", !.k = reTop.k + 1])
            /\ UNCHANGED rePc
  /\ UNCHANGED <<reChain, reRec, reDepth, reMask, reLeval, reReval, reOut, reRetLen>>

\* return stack[0], nil: the value goes to the run that asked for it
ReEvalReturn ==
  /\ rePc = "run"
  /\ reTop.pc = "op"
  /\ reTop.k > Len(reOps)
  /\ reRetLen' = Len(reStack)
  /\ IF reStack = <<>>
     THEN /\ rePc' = "panic"
          /\ UNCHANGED <<reFrames, reOut>>
     ELSE LET callers == SubSeq(reFrames, 1, Len(reFrames) - 1) IN
          IF callers = <<>>
          THEN /\ rePc' = "done"
               /\ reOut' = reStack[1]
               /\ reFrames' = callers
          ELSE LET c == callers[Len(callers)] IN
               /\ reFrames' = [callers EXCEPT ![Len(callers)] =
                                 IF c.pc = "rwait"
                                 THEN [c EXCEPT !.rval = reStack[1], !.pc = "lval"]
                                 ELSE [c EXCEPT !.lval = reStack[1], !.pc = "apply"]]
               /\ UNCHANGED <<rePc, reOut>>
  /\ UNCHANGED <<reChain, reRec, reDepth, reStack, reMask, reLeval, reReval>>

(***************************************************************************)
(* The value of the function at depth d when every run of the chain has a  *)
(* stack and a mask of its own.                                            *)
(***************************************************************************)
RECURSIVE ownRun(_, _, _, _)
ownOperand(d, i) ==
  IF i = reRec /\ d < reDepth THEN ownRun(d + 1, 1, <<>>, clearMask) ELSE operandValue(i)

ownRun(d, k, st, mask) ==
  IF k > Len(reOps) THEN st[1]
  ELSE LET i == reOps[k].origPos
           rval == IF ~mask[i + 1] THEN ownOperand(d, i + 1) ELSE st[Len(st)]
           st1 == IF ~mask[i + 1] THEN st ELSE SubSeq(st, 1, Len(st) - 1)
           lval == IF ~mask[i] THEN ownOperand(d, i) ELSE st1[Len(st1)]
           st2 == IF ~mask[i] THEN st1 ELSE SubSeq(st1, 1, Len(st1) - 1)
       IN  ownRun(d, k + 1, Append(st2, evalBinary(reOps[k].op, lval, rval).val),
                  [mask EXCEPT ![i] = TRUE, ![i + 1] = TRUE])

(***************************************************************************)
(* Array.Concat on Go slices.  An array value holds a slice: a backing     *)
(* array, a length and the capacity left in the backing array.  append     *)
(* writes behind the length when the capacity suffices and moves to a new  *)
(* backing array of grown capacity when it does not.                       *)
(***************************************************************************)
VARIABLES
  backing,   \* the backing arrays: each a sequence of cells, as long as its capacity
  arrs,      \* the array values made so far: [bmode, bs, arr, len]
  arrMade,   \* the elements of each array value when it was made
  concatPc   \* "run"

concatVars == <<backing, arrs, arrMade, concatPc>>

MaxArrs == 6

\* the array literal [e1, ..., en]: make([]variant.Iface, 0, n) filled by Append
sliceOf(arr, n) == [bmode |-> FALSE, bs |-> <<>>, arr |-> arr, len |-> n]

bytesOf(bs) == [bmode |-> TRUE, bs |-> bs, arr |-> 0, len |-> 0]

capOf(heap, sl) == IF sl.arr = 0 THEN 0 ELSE Len(heap[sl.arr])

cellsOf(heap, sl) == IF sl.arr = 0 THEN <<>> ELSE SubSeq(heap[sl.arr], 1, sl.len)

\* the elements of an array value: its bytes in bytes-mode
elemsOf(heap, a) == IF a.bmode THEN a.bs ELSE cellsOf(heap, a)

\* the capacity append grows a slice of capacity old to when it needs need
growCap(old, need) == IF need > 2 * old THEN need ELSE 2 * old

\* append(sl, xs...)
goAppend(heap, sl, xs) ==
  LET need == sl.len + Len(xs) IN
  IF need <= capOf(heap, sl)
  THEN [heap |-> IF xs = <<>> THEN heap
                 ELSE [heap EXCEPT ![sl.arr] =
                         [k \in 1..Len(@) |-> IF k > sl.len /\ k <= need THEN xs[k - sl.len] ELSE @[k]]],
        sl |-> [sl EXCEPT !.len = need]]
  ELSE LET cells == cellsOf(heap, sl) \o xs
           newcap == growCap(capOf(heap, sl), need)
       IN  [heap |-> Append(heap, [k \in 1..newcap |-> IF k <= need THEN cells[k] ELSE 0]),
            sl |-> sliceOf(Len(heap) + 1, need)]

\* Array.Concat: the heap after the call and the array value returned
arrayConcat(heap, v, other) ==
  IF v.bmode /\ other.bmode
  THEN [heap |-> heap, sl |-> bytesOf(v.bs \o other.bs)]
  ELSE LET heap1 == IF v.bmode THEN Append(heap, v.bs) ELSE heap
           larr == IF v.bmode THEN sliceOf(Len(heap) + 1, Len(v.bs)) ELSE v
           rarr == elemsOf(heap, other)
       IN  goAppend(heap1, larr, rarr)

ConcatInit ==
  \E l1 \in {<<1>>, <<1, 2>>}, l2 \in {<<>>, <<3>>} :
    /\ backing = <<l1, l2>>
    /\ arrs = <<sliceOf(1, Len(l1)), IF l2 = <<>> THEN sliceOf(0, 0) ELSE sliceOf(2, Len(l2)),
                bytesOf(<<4>>)>>
    /\ arrMade = <<l1, l2, <<4>>>>
    /\ concatPc = "run"

\* evalBinary: `a + b` on two arrays; the result is a further array value
ConcatArrays(i, j) ==
  /\ concatPc = "run"
  /\ Len(arrs) < MaxArrs
  /\ LET r == arrayConcat(backing, arrs[i], arrs[j]) IN
       /\ backing' = r.heap
       /\ arrs' = Append(arrs, r.sl)
       /\ arrMade' = Append(arrMade, elemsOf(r.heap, r.sl))
  /\ UNCHANGED concatPc

(***************************************************************************)
(* iter.range.  A Num is a pointer to a big.Float; the evaluator of a      *)
(* number literal returns a Num over the one big.Float parsed at lowering, *)
(* and a variable holds the Num it was assigned.  floats are the           *)
(* big.Floats, a Num is the index of its big.Float.                        *)
(***************************************************************************)
VARIABLES
  floats,     \* the big.Floats: index -> value
  rangeArgs,  \* the Nums passed to range(), as read from literals or variables
  rangeMade,  \* the values of the arguments when range() was called
  rangeIt,    \* the Nums start, stop, step the iterator closes over
  rangePc,    \* "args", "iter", "empty", "error", "stopped"
  rangeVal    \* the Num the last call of the iterator returned

rangeVars == <<floats, rangeArgs, rangeMade, rangeIt, rangePc, rangeVal>>

MaxRange == 2

ErrStepZero == "step cannot be zero"

\* Num.LessThan, Num.GreaterThan, Num.LessOrEqualTo, Num.GreaterOrEqualTo
numLess(fs, a, b) == fs[a] < fs[b]

\* Num.Add: v.v.Add(v.v, other.v)
numAdd(fs, v, other) == [fs EXCEPT ![v] = fs[v] + fs[other]]

\* Num.Copy, variant.Int: a Num over a big.Float of its own
numNew(fs, x) == Append(fs, x)

RangeInit ==
  \E n \in 1..3 :
    \E vals \in [1..n -> (0 - MaxRange)..MaxRange] :
      /\ floats = vals
      /\ rangeArgs = [i \in 1..n |-> i]
      /\ rangeMade = vals
      /\ rangeIt = <<>>
      /\ rangePc = "args"
      /\ rangeVal = 0

\* Range followed by rangeIterator
RangeCall ==
  /\ rangePc = "args"
  /\ LET n == Len(rangeArgs)
         fs1 == IF n = 1 THEN numNew(floats, 0) ELSE floats
         start == IF n = 1 THEN Len(fs1) ELSE rangeArgs[1]
         stop == IF n = 1 THEN rangeArgs[1] ELSE rangeArgs[2]
         fs2 == IF n < 3 THEN numNew(fs1, 1) ELSE fs1
         step == IF n < 3 THEN Len(fs2) ELSE rangeArgs[3]
     IN  /\ floats' = fs2
         /\ rangeIt' = <<start, stop, step>>
         /\ rangePc' = IF fs2[step] = 0 THEN "error"
                       ELSE IF fs2[step] < 0
                       THEN IF numLess(fs2, start, stop) THEN "empty" ELSE "iter"
                       ELSE IF numLess(fs2, stop, start) THEN "empty" ELSE "iter"
  /\ UNCHANGED <<rangeArgs, rangeMade, rangeVal>>

\* one call of the function rangeIterator returns
RangeNext ==
  /\ rangePc = "iter"
  /\ LET start == rangeIt[1]
         stop == rangeIt[2]
         step == rangeIt[3]
         condition == IF floats[step] < 0 THEN floats[start] <= floats[stop]
                      ELSE floats[start] >= floats[stop]
     IN  IF condition
         THEN /\ rangePc' = "stopped"
              /\ UNCHANGED <<floats, rangeVal>>
         ELSE /\ rangeVal' = Len(floats) + 1
              /\ floats' = numAdd(numNew(floats, floats[start]), start, step)
              /\ UNCHANGED rangePc
  /\ UNCHANGED <<rangeArgs, rangeMade, rangeIt>>

(***************************************************************************)
(* The parameters of a function literal.  The literal stands in the scope  *)
(* of a variable (the global scope, or the local scope of an enclosing     *)
(* function); its Vars are the enclosing ones with one more local scope,   *)
(* and its parameters are registered in them with Vars.Register.           *)
(***************************************************************************)
VARIABLES
  parSc,     \* the scopes "G", "F" (enclosing function) and "B" (the literal)
  parNames,  \* [outer, param]: the name of the enclosing variable and of the parameter
  parVars,   \* the Vars the enclosing variable is assigned in
  parOuter,  \* scope and register of the enclosing variable
  parArg,    \* scope and register of the parameter
  parVal,    \* the value last assigned to the enclosing variable
  parCalls,  \* calls of the function so far
  parPc      \* "start", "assigned", "defined"

paramVars == <<parSc, parNames, parVars, parOuter, parArg, parVal, parCalls, parPc>>

MaxParCalls == 2

ParValues == {VInt(1), VInt(2), VInt(3)}

NoSlot == [scope |-> "nil", reg |-> RegisterReturn]

ParamInit ==
  /\ parSc = [id \in ScopeIds |-> NewVarScope]
  /\ parNames \in [outer : {"n", "m"}, param : {"n", "m"}]
  /\ parVars \in {NewVars, WithScope(NewVars, "F")}
  /\ parOuter = NoSlot
  /\ parArg = NoSlot
  /\ parVal = NewNone
  /\ parCalls = 0
  /\ parPc = "start"

\* ExprStmtCodeGen.CodeGen and its invoker for `outer = v` in the enclosing scope
ParAssign(v) ==
  /\ parPc = "start"
  /\ LET low == Register(parSc, parVars, parNames.outer) IN
       /\ parSc' = DefineVar(low.sc, low.scope, low.reg, v)
       /\ parOuter' = [scope |-> low.scope, reg |-> low.reg]
  /\ parVal' = v
  /\ parPc' = "assigned"
  /\ UNCHANGED <<parNames, parVars, parArg, parCalls>>

\* OperandCodeGen.CodeGen and FuncExprCodeGen.CodeGen for `|param| => ...`
ParDefineFunc ==
  /\ parPc = "assigned"
  /\ LET low == Register(parSc, WithScope(parVars, "B"), parNames.param) IN
       /\ parSc' = low.sc
       /\ parArg' = [scope |-> low.scope, reg |-> low.reg]
  /\ parPc' = "defined"
  /\ UNCHANGED <<parNames, parVars, parOuter, parVal, parCalls>>

\* a call of the function: prefn binds the argument
ParCall(v) ==
  /\ parPc = "defined"
  /\ parCalls < MaxParCalls
  /\ parSc' = DefineVar(parSc, parArg.scope, parArg.reg, v)
  /\ parCalls' = parCalls + 1
  /\ UNCHANGED <<parNames, parVars, parOuter, parArg, parVal, parPc>>

(***************************************************************************)
(* Specifications.  Each one runs one part of the interpreter and leaves   *)
(* the state of the other parts at rest.                                   *)
(***************************************************************************)
vars == <<exprVars, callVars, objVars, importVars, lowerVars, valueVars, registryVars, sortVars, reenterVars, concatVars, rangeVars, paramVars>>

ExprIdle ==
  /\ chain = <<>> /\ evals = <<>> /\ ops = <<>> /\ evalMask = <<>> /\ stack = <<>>
  /\ opIdx = 1 /\ exprPc = "idle" /\ exprRes = NewNone /\ evalOrder = <<>>

CallIdle ==
  /\ scopes = lowBlkLocal.sc /\ frames = <<>> /\ calls = MaxCalls
  /\ lastRet = NoRet /\ resumed = FALSE
  /\ outerSeen = [atCreate |-> NewNone, read |-> FALSE]

ObjIdle ==
  /\ obj = EmptyObject /\ history = <<>> /\ sets = MaxSets /\ loopKind = "idle"
  /\ coll = NewArray(<<>>) /\ loopPc = "off" /\ loopIdx = 0 /\ visited = <<>>
  /\ loopRet = "" /\ bodyErr = "" /\ lateIter = FALSE /\ run = 1
  /\ firstTrace = <<>> /\ plain = TRUE

ImportIdle ==
  /\ files = [f \in FileNames |-> <<>>] /\ present = FileNames /\ importedPaths = {}
  /\ lowerStack = <<>> /\ importPc = "idle" /\ importErr = "" /\ failPath = ""
  /\ failChain = {}

LowerIdle ==
  /\ lowFile = "root" /\ lowOrig = <<>> /\ lowPath = <<>> /\ lowLeaf = "name"
  /\ lowCtx = programCtx /\ lowGlobal = {} /\ lowPc = "idle" /\ lowErr = ""

ValueIdle == valOp = "idle" /\ valIn = <<>> /\ valOut = Returned(NewNone)

RegistryIdle == regPackages = New /\ regLast = [pkg |-> Pkg("idle", 0), err |-> ""]

SortIdle == sortChain = <<>> /\ sortOps = <<>> /\ sortPc = "idle"

ReenterIdle ==
  /\ reChain = <<>> /\ reRec = 0 /\ reDepth = 0 /\ reStack = <<>> /\ reMask = <<>>
  /\ reLeval = -1 /\ reReval = -1 /\ reFrames = <<>> /\ rePc = "idle"
  /\ reOut = NewNone /\ reRetLen = -1

ConcatIdle == backing = <<>> /\ arrs = <<>> /\ arrMade = <<>> /\ concatPc = "idle"

RangeIdle ==
  /\ floats = <<>> /\ rangeArgs = <<>> /\ rangeMade = <<>> /\ rangeIt = <<>>
  /\ rangePc = "idle" /\ rangeVal = 0

ParamIdle ==
  /\ parSc = <<>> /\ parNames = [outer |-> "", param |-> ""] /\ parVars = NewVars
  /\ parOuter = NoSlot /\ parArg = NoSlot /\ parVal = NewNone /\ parCalls = 0
  /\ parPc = "idle"

restExpr == <<callVars, objVars, importVars, lowerVars, valueVars, registryVars, sortVars, reenterVars, concatVars, rangeVars, paramVars>>
restCall == <<exprVars, objVars, importVars, lowerVars, valueVars, registryVars, sortVars, reenterVars, concatVars, rangeVars, paramVars>>
restObj == <<exprVars, callVars, importVars, lowerVars, valueVars, registryVars, sortVars, reenterVars, concatVars, rangeVars, paramVars>>
restImport == <<exprVars, callVars, objVars, lowerVars, valueVars, registryVars, sortVars, reenterVars, concatVars, rangeVars, paramVars>>
restLower == <<exprVars, callVars, objVars, importVars, valueVars, registryVars, sortVars, reenterVars, concatVars, rangeVars, paramVars>>
restValue == <<exprVars, callVars, objVars, importVars, lowerVars, registryVars, sortVars, reenterVars, concatVars, rangeVars, paramVars>>
restRegistry == <<exprVars, callVars, objVars, importVars, lowerVars, valueVars, sortVars, reenterVars, concatVars, rangeVars, paramVars>>
restSort == <<exprVars, callVars, objVars, importVars, lowerVars, valueVars, registryVars, reenterVars, concatVars, rangeVars, paramVars>>
restReenter == <<exprVars, callVars, objVars, importVars, lowerVars, valueVars, registryVars, sortVars, concatVars, rangeVars, paramVars>>
restConcat == <<exprVars, callVars, objVars, importVars, lowerVars, valueVars, registryVars, sortVars, reenterVars, rangeVars, paramVars>>
restRange == <<exprVars, callVars, objVars, importVars, lowerVars, valueVars, registryVars, sortVars, reenterVars, concatVars, paramVars>>
restParam == <<exprVars, callVars, objVars, importVars, lowerVars, valueVars, registryVars, sortVars, reenterVars, concatVars, rangeVars>>

InitExpr == ExprInit /\ CallIdle /\ ObjIdle /\ ImportIdle /\ LowerIdle /\ ValueIdle /\ RegistryIdle /\ SortIdle /\ ReenterIdle /\ ConcatIdle /\ RangeIdle /\ ParamIdle

NextExpr ==
  \/ ExprEvalStart /\ UNCHANGED restExpr
  \/ ExprEvalStep /\ UNCHANGED restExpr
  \/ ExprEvalReturn /\ UNCHANGED restExpr

SpecExpr == InitExpr /\ [][NextExpr]_vars

InitCall == ExprIdle /\ CallInit /\ ObjIdle /\ ImportIdle /\ LowerIdle /\ ValueIdle /\ RegistryIdle /\ SortIdle /\ ReenterIdle /\ ConcatIdle /\ RangeIdle /\ ParamIdle

NextCall ==
  \/ \E v \in CallValues : AssignOuter(v) /\ UNCHANGED restCall
  \/ DefineFunc /\ UNCHANGED restCall
  \/ \E vargs \in ArgLists : CallFunc(vargs) /\ UNCHANGED restCall
  \/ EvalBlock /\ UNCHANGED restCall
  \/ \E v \in CallValues : BodyAssign(v) /\ UNCHANGED restCall
  \/ \E v \in CallValues \cup {NewNone} : BodyReturn(v) /\ UNCHANGED restCall
  \/ BodyReturnOuter /\ UNCHANGED restCall
  \/ BodyEnd /\ UNCHANGED restCall

SpecCall == InitCall /\ [][NextCall]_vars

InitObj == ExprIdle /\ CallIdle /\ ObjInit /\ ImportIdle /\ LowerIdle /\ ValueIdle /\ RegistryIdle /\ SortIdle /\ ReenterIdle /\ ConcatIdle /\ RangeIdle /\ ParamIdle

NextObj ==
  \/ \E k \in KeySet, v \in ValueSet : ObjSet(k, v) /\ UNCHANGED restObj
  \/ \E cond \in CondSet, res \in BodyResults : WhileIter(cond, res) /\ UNCHANGED restObj
  \/ \E arr \in ArrayColls : ForArrayStart(arr) /\ UNCHANGED restObj
  \/ \E res \in BodyResults : ForArrayIter(res) /\ UNCHANGED restObj
  \/ ForObjectStart /\ UNCHANGED restObj
  \/ \E kb \in DOMAIN obj.v, res \in BodyResults : ForObjectIter(kb, res) /\ UNCHANGED restObj
  \/ LoopRerun /\ UNCHANGED restObj

SpecObj == InitObj /\ [][NextObj]_vars

InitImport == ExprIdle /\ CallIdle /\ ObjIdle /\ ImportInit /\ LowerIdle /\ ValueIdle /\ RegistryIdle /\ SortIdle /\ ReenterIdle /\ ConcatIdle /\ RangeIdle /\ ParamIdle

NextImport ==
  \/ LowerImport /\ UNCHANGED restImport
  \/ LowerFileDone /\ UNCHANGED restImport

\* lowering is one synchronous recursive call: it always takes its next step
SpecImport == InitImport /\ [][NextImport]_vars /\ WF_vars(NextImport)

InitLower == ExprIdle /\ CallIdle /\ ObjIdle /\ ImportIdle /\ LowerInit /\ ValueIdle /\ RegistryIdle /\ SortIdle /\ ReenterIdle /\ ConcatIdle /\ RangeIdle /\ ParamIdle

NextLower ==
  \/ LowerIf /\ UNCHANGED restLower
  \/ LowerWhile /\ UNCHANGED restLower
  \/ LowerFor /\ UNCHANGED restLower
  \/ LowerFunc /\ UNCHANGED restLower
  \/ LowerBlock /\ UNCHANGED restLower
  \/ LowerReturn /\ UNCHANGED restLower
  \/ LowerContinue /\ UNCHANGED restLower
  \/ LowerBreak /\ UNCHANGED restLower
  \/ LowerName /\ UNCHANGED restLower

SpecLower == InitLower /\ [][NextLower]_vars

InitValue == ExprIdle /\ CallIdle /\ ObjIdle /\ ImportIdle /\ LowerIdle /\ ValueInit /\ RegistryIdle /\ SortIdle /\ ReenterIdle /\ ConcatIdle /\ RangeIdle /\ ParamIdle

NextValue ==
  \/ \E arr \in ArrayColls, idx \in IndexSet : IndexArray(arr, idx) /\ UNCHANGED restValue
  \/ \E a \in CompareSet, b \in CompareSet : CompareValues(a, b) /\ UNCHANGED restValue
  \/ \E lobj \in EntryObjects, robj \in EntryObjects :
       \E lorder \in rangeOrders(lobj), rorder \in rangeOrders(robj) :
         CompareObjects(lobj, robj, lorder, rorder) /\ UNCHANGED restValue
  \/ \E n \in 0..MaxLit :
       \E keys \in tuplesOf(LitKeySet, n), values \in tuplesOf(ValueSet, n) :
         ObjectLiteral(keys, values) /\ UNCHANGED restValue
  \/ \E x \in ModSet, y \in ModSet : Mod(x, y) /\ UNCHANGED restValue

SpecValue == InitValue /\ [][NextValue]_vars

InitRegistry == ExprIdle /\ CallIdle /\ ObjIdle /\ ImportIdle /\ LowerIdle /\ ValueIdle /\ RegistryInit /\ SortIdle /\ ReenterIdle /\ ConcatIdle /\ RangeIdle /\ ParamIdle

NextRegistry ==
  \/ \E pkg \in PkgSet : RegisterPackage(pkg) /\ UNCHANGED restRegistry

SpecRegistry == InitRegistry /\ [][NextRegistry]_vars

InitSort == ExprIdle /\ CallIdle /\ ObjIdle /\ ImportIdle /\ LowerIdle /\ ValueIdle /\ RegistryIdle /\ SortInit /\ ReenterIdle /\ ConcatIdle /\ RangeIdle /\ ParamIdle

NextSort ==
  \/ SortOps /\ UNCHANGED restSort

SpecSort == InitSort /\ [][NextSort]_vars

InitReenter == ExprIdle /\ CallIdle /\ ObjIdle /\ ImportIdle /\ LowerIdle /\ ValueIdle /\ RegistryIdle /\ SortIdle /\ ReenterInit /\ ConcatIdle /\ RangeIdle /\ ParamIdle

NextReenter ==
  \/ ReEvalStart /\ UNCHANGED restReenter
  \/ ReNextOp /\ UNCHANGED restReenter
  \/ ReGetRval /\ UNCHANGED restReenter
  \/ ReGetLval /\ UNCHANGED restReenter
  \/ ReApply /\ UNCHANGED restReenter
  \/ ReEvalReturn /\ UNCHANGED restReenter

SpecReenter == InitReenter /\ [][NextReenter]_vars

InitConcat == ExprIdle /\ CallIdle /\ ObjIdle /\ ImportIdle /\ LowerIdle /\ ValueIdle /\ RegistryIdle /\ SortIdle /\ ReenterIdle /\ ConcatInit /\ RangeIdle /\ ParamIdle

NextConcat ==
  \/ \E i, j \in 1..Len(arrs) : ConcatArrays(i, j) /\ UNCHANGED restConcat

SpecConcat == InitConcat /\ [][NextConcat]_vars

InitRange == ExprIdle /\ CallIdle /\ ObjIdle /\ ImportIdle /\ LowerIdle /\ ValueIdle /\ RegistryIdle /\ SortIdle /\ ReenterIdle /\ ConcatIdle /\ RangeInit /\ ParamIdle

NextRange ==
  \/ RangeCall /\ UNCHANGED restRange
  \/ RangeNext /\ UNCHANGED restRange

SpecRange == InitRange /\ [][NextRange]_vars

InitParam == ExprIdle /\ CallIdle /\ ObjIdle /\ ImportIdle /\ LowerIdle /\ ValueIdle /\ RegistryIdle /\ SortIdle /\ ReenterIdle /\ ConcatIdle /\ RangeIdle /\ ParamInit

NextParam ==
  \/ \E v \in ParValues : ParAssign(v) /\ UNCHANGED restParam
  \/ ParDefineFunc /\ UNCHANGED restParam
  \/ \E v \in ParValues : ParCall(v) /\ UNCHANGED restParam

SpecParam == InitParam /\ [][NextParam]_vars

(***************************************************************************)
(* Properties.                                                             *)
(***************************************************************************)

\* C1: the value the lowered evaluator produces for a binary chain is the value
\* of the chain grouped by the precedence table, left-associative within one
\* level; the evaluator fails only where that tree fails.
C1_ChainValueIsTreeValue ==
  LET t == treeValue(chain, evals)
  IN  /\ exprPc = "done" => (t.err = "" /\ exprRes = t.val)
      /\ exprPc \in {"error", "panic"} => t.err # ""

\* C5: the operands of a chain are evaluated in their left-to-right source
\* order: the positions in evalOrder are strictly increasing.
C5_OperandsLeftToRight ==
  \A i \in 1..Len(evalOrder) : \A j \in (i + 1)..Len(evalOrder) :
    evalOrder[i] < evalOrder[j]

\* C2: after an inner call of f has returned into an outer call of f, the
\* argument and local-variable bindings of the outer call are those it had
\* immediately before the inner call.
C2_OuterBindingsKept ==
  resumed => Bindings(scopes, "F") = frames[Len(frames)].saved

\* C3: a call of the block-bodied function, or an evaluation of the block
\* expression, whose body ends without executing a return yields None.
C3_NoReturnYieldsNone ==
  (lastRet.done /\ lastRet.err = "" /\ ~lastRet.viaReturn) => lastRet.val = NewNone

\* C4: once the body of a loop has yielded an error or the return signal, the
\* body is not invoked again and the loop invoker returns that error or signal.
C4_LoopPropagatesBodyError ==
  /\ ~lateIter
  /\ (loopPc = "done" /\ bodyErr # "") => loopRet = bodyErr

kbOf(k) == MemReader(k).bytes

RECURSIVE firstInserted(_, _)
\* the canonical bytes of the keys of h, each at its first insertion
firstInserted(h, seen) ==
  IF h = <<>> THEN <<>>
  ELSE LET kb == kbOf(Head(h)[1])
       IN  IF kb \in seen THEN firstInserted(Tail(h), seen)
           ELSE <<kb>> \o firstInserted(Tail(h), seen \cup {kb})

insertionsOf(kb) == {i \in 1..Len(history) : kbOf(history[i][1]) = kb}

firstOf(kb) == CHOOSE i \in insertionsOf(kb) : \A j \in insertionsOf(kb) : i <= j

lastOf(kb) == CHOOSE i \in insertionsOf(kb) : \A j \in insertionsOf(kb) : j <= i

\* C6: a for loop over an Object hands the entries to its body in the order in
\* which their keys were first inserted.
C6_ObjectIterationInInsertionOrder ==
  loopKind = "object" =>
    \A i \in 1..Len(visited) : visited[i].kb = firstInserted(history, {})[i]

\* C7: after two insertions of keys with equal canonical bytes the entry holds
\* the later value and its original-key slot still holds the key inserted first.
C7_DuplicateKeyKeepsFirstKey ==
  \A kb \in DOMAIN obj.v :
    /\ obj.v[kb] = history[lastOf(kb)][2]
    /\ obj.keys[kb] = history[firstOf(kb)][1]

keysOf(tr) == [i \in 1..Len(tr) |-> tr[i].key]

\* C8: two runs of `for k in o { host(k) }` in the same environment make the
\* same sequence of host calls.
C8_TwoRunsSameEffects ==
  (run = 2 /\ loopPc = "done" /\ loopKind = "object" /\ plain) =>
    keysOf(visited) = keysOf(firstTrace)

\* C9: an import fails as an import cycle only when the imported file is on the
\* current chain of in-progress imports; an import of a file that is not on the
\* chain succeeds even if that file was imported earlier.
C9_OffChainImportSucceeds ==
  (importPc = "error" /\ importErr = ErrImportCycle) => failPath \in failChain

\* the files that import expressions of f name, when f can be opened
importsOf(f) ==
  IF f \in present THEN {files[f][i] : i \in 1..Len(files[f])} ELSE {}

RECURSIVE closure(_, _)
closure(S, n) ==
  IF n = 0 THEN S ELSE closure(S \cup UNION {importsOf(g) : g \in S}, n - 1)

reachableFrom(f) == closure(importsOf(f), Cardinality(FileNames))

\* some file the root reaches (or the root) imports itself, directly or not
CyclicImports ==
  \E g \in {RootFile} \cup reachableFrom(RootFile) : g \in reachableFrom(g)

C11_BuiltinResolvesInEveryFile ==
  (lowLeaf = "name" /\ lowPc # "lowering" /\ lowPc # "idle") => lowPc = "ok"

\* the case of an indexer applied to an array of length n with an integer i
indexedLen == arrLen(valIn[1])

indexedAt == valIn[2].n

integerIndex == valOp = "index" /\ valIn[2].t = "number" /\ IsInt(valIn[2])

\* C12: indexing an array of length n with an integer i >= n or i < -n ends
\* in an error returned to the caller, never in a panic.
C12_OutOfRangeIndexReturnsError ==
  (integerIndex /\ (indexedAt >= indexedLen \/ indexedAt < 0 - indexedLen)) =>
    (~valOut.panic /\ valOut.err # "")

\* the element of an array at 0-based position p, a byte as an unsigned Num
elementAt(arr, p) == IF arr.bmode THEN UInt(arr.s[p + 1]) ELSE arr.v[p + 1]

\* C13: for -n <= i < 0 indexing yields the element at position n + i, for
\* generic and for bytes-mode arrays.
C13_NegativeIndexCountsFromEnd ==
  (integerIndex /\ 0 - indexedLen <= indexedAt /\ indexedAt < 0) =>
    /\ ~valOut.panic
    /\ valOut.err = ""
    /\ valOut.val = elementAt(valIn[1], indexedLen + indexedAt)

\* C14: whenever deep_equal(a, b) holds of two values that are not functions,
\* the canonical bytes of a and of b are the same bytes; this covers Nums that
\* compare equal (zeros of either sign) and Objects holding the same entries.
C14_DeepEqualImpliesSameBytes ==
  (valOp \in {"compare", "compareObjects"} /\ valOut.val.eq) =>
    (valOut.val.x.err = "" /\ valOut.val.y.err = "" /\
     valOut.val.x.bytes = valOut.val.y.bytes)

\* C15: the canonical bytes of a Bool are its tag followed by the raw boolean
\* byte, so an object literal with the keys true and false holds two entries.
boolByte(v) == IF v.b THEN 1 ELSE 0
C15_BoolBytesCarryTheValue ==
  /\ (valOp = "compare" /\ valIn[1].t = "bool") =>
       valOut.val.x.bytes = <<TypeBool, boolByte(valIn[1])>>
  /\ (valOp = "literal" /\ valIn[1].v = <<NewBool(TRUE), NewBool(FALSE)>>) =>
       (~valOut.panic /\ valOut.err = "" /\ objLen(valOut.val) = 2)

\* C16: an object literal one of whose keys is a Func, or a container
\* holding a Func, ends with a returned runtime error and never with a crash.
holdsFunc(k) == k.t = "func" \/ (k.t = "array" /\ \E i \in 1..Len(k.v) : k.v[i].t = "func")
C16_UnhashableKeyReturnsError ==
  (valOp = "literal" /\ \E i \in 1..Len(valIn[1].v) : holdsFunc(valIn[1].v[i])) =>
    (~valOut.panic /\ valOut.err # "")

\* C17 as stated: for finite x and finite non-zero y, x % y is zero or has
\* the sign of the divisor y.
finiteMod == valOp = "mod" /\ ~IsInf(valIn[1]) /\ ~IsInf(valIn[2]) /\ ~IsZero(valIn[2])
lowered == lowPc \in {"ok", "error"}
inFrame == \E i \in DOMAIN lowOrig : lowOrig[i] \in {"func", "block"}
C18_ReturnOutsideFrameIsRejected ==
  (lowered /\ lowLeaf = "return" /\ ~inFrame) =>
    (lowPc = "error" /\ lowErr = ErrReturnGlobal)

\* C19: lowering fails with the compile error for every break or continue
\* that is not lexically inside a while or for body of the same function or
\* block-expression frame; a loop around the function literal or block
\* expression the statement stands in does not count.
inLoopOfFrame ==
  \E i \in DOMAIN lowOrig :
    /\ lowOrig[i] \in {"while", "for"}
    /\ \A j \in DOMAIN lowOrig : j > i => lowOrig[j] \notin {"func", "block"}
C19_BreakContinueOutsideLoopIsRejected ==
  (lowered /\ lowLeaf \in {"break", "continue"} /\ ~inLoopOfFrame) =>
    /\ lowPc = "error"
    /\ lowErr = IF lowLeaf = "break" THEN ErrBreakOutside ELSE ErrContinueOutside

C19_Witness ==
  /\ DOMAIN lowOrig = 1..2 /\ lowOrig[1] = "while" /\ lowOrig[2] = "func"
  /\ lowLeaf = "break"
  /\ lowPc = "error" /\ lowErr = ErrBreakOutside

C21_BuiltinNameAlwaysRejected ==
  regLast.pkg.name = "builtin" => regLast.err # ""

\* C21 as amended: Register returns the reserved-name error for every package
\* named builtin other than the builtin package itself, and nil for the
\* builtin package itself.
C21_BuiltinNameRejectedForOtherPackages ==
  regLast.pkg.name = "builtin" =>
    ((regLast.err = ErrReserved) <=> (regLast.pkg # builtinPackage))

C21_Witness ==
  /\ regLast.pkg.name = "builtin" /\ regLast.pkg # builtinPackage
  /\ regLast.err = ErrReserved

\* C22: a Register call never replaces a package: every name present in the
\* registry keeps the package it maps to, whatever Register is called with.
C22_RegisterNeverReplaces ==
  [][\A name \in DOMAIN regPackages :
       name \in DOMAIN regPackages' /\ regPackages'[name] = regPackages[name]]_vars

C22_Witness ==
  /\ regLast.pkg \in {Pkg("iter", 2), Pkg("a", 2)}
  /\ regLast.err = ErrAlreadyRegistered
  /\ regPackages[regLast.pkg.name] # regLast.pkg

\* C25: in the operator list walked at evaluation time the operators are
\* ordered by descending precedence, and operators of equal precedence keep
\* their ascending original position, for chains of every length.
C25_OperatorListIsStablySorted ==
  sortPc = "lowered" =>
    \A i \in 1..Len(sortOps) : \A j \in (i + 1)..Len(sortOps) :
      \/ sortOps[i].prior > sortOps[j].prior
      \/ sortOps[i].prior = sortOps[j].prior /\ sortOps[i].origPos < sortOps[j].origPos

C26_ConcatLeavesEarlierArraysAlone ==
  \A k \in 1..Len(arrs) : elemsOf(backing, arrs[k]) = arrMade[k]

\* C27: passing a Num to iter.range never changes it: after the call and any
\* use of the iterator every argument still has the value it was passed with.
C27_RangeLeavesItsArgumentsAlone ==
  \A i \in 1..Len(rangeArgs) : floats[rangeArgs[i]] = rangeMade[i]

\* C28: calling a function changes no variable of an enclosing scope merely
\* because it has the name of a parameter: the parameter is bound in the
\* function's own scope, so the enclosing variable keeps its value.
C28_CallLeavesEnclosingVariable ==
  parPc \in {"assigned", "defined"} =>
    /\ GetVar(parSc, parOuter.scope, parOuter.reg) = parVal
    /\ parPc = "defined" => parArg.scope = "B"

\* C29: for finite x and finite non-zero y the result r of x % y is smaller
\* in magnitude than the divisor, |r| < |y|, on the integer path and on the
\* non-integer path alike.
C29_ModulusSmallerThanDivisor ==
  finiteMod =>
    /\ ~valOut.panic
    /\ valOut.err = ""
    /\ Abs(valOut.val.n) * valIn[2].d < Abs(valIn[2].n) * valOut.val.d

\* C30: two arrays are deep-equal exactly when they have the same length and
\* pairwise deep-equal elements, the elements of a bytes-mode array being its
\* bytes as unsigned Nums; bytes-mode arrays with different bytes differ.
arrayElements(a) == IF a.bmode THEN LiftBytes(a.s) ELSE a.v
comparedArrays == valOp = "compare" /\ valIn[1].t = "array" /\ valIn[2].t = "array"
C30_ArraysEqualByElements ==
  comparedArrays =>
    (valOut.val.eq <=>
       /\ Len(arrayElements(valIn[1])) = Len(arrayElements(valIn[2]))
       /\ \A i \in 1..Len(arrayElements(valIn[1])) :
            DeepEqual(arrayElements(valIn[1])[i], arrayElements(valIn[2])[i]))

====
